---- MODULE Spec2Model ----
(***************************************************************************)
(* Client of the Integration Visualizer: the App form state, the          *)
(* useComputation hook, the API client (real and demo mode), the demo      *)
(* responses, the example catalog and the result panels.                   *)
(*                                                                         *)
(* JavaScript values are modelled as records so that values of different  *)
(* JavaScript types can be compared:                                       *)
(*   Str(s)      a string           Num(m, e)  the number m * 10^e         *)
(*   Bool(b)     a boolean          Arr(seq)   an array                    *)
(*   Null, Undefined                Samples(n, g)  an array of n numbers   *)
(*   any other record               an object, keyed by its property names *)
(***************************************************************************)
EXTENDS Integers, Sequences, FiniteSets, TLC

VARIABLES
    isDemo,          \* api.js: const isDemo, fixed at module load
    integralType,    \* App: useState('1d')
    form,            \* App: the fifteen other useState cells, by name
    examples,        \* ExamplesPanel: useState(null)
    physicsCategory, \* ExamplesPanel: useState('all')
    result,          \* useComputation: useState(null)
    visualization,   \* useComputation: useState(null)
    loading,         \* useComputation: useState(false)
    error,           \* useComputation: useState(null)
    calls,           \* compute calls awaiting apiRequest, in start order
    nOps,            \* number of form operations performed so far
    examplesCall,    \* ExamplesPanel: what its fetchExamples() call awaits
    job,             \* the computation engine: the request being dispatched
    innerBoundary,   \* state of the ErrorBoundary around the visualization
    outerBoundary,   \* state of the ErrorBoundary around the page
    heap,            \* the objects of the page, by address (aliasing view)
    refs             \* aliasing view: the object each state cell refers to

vars == <<isDemo, integralType, form, examples, physicsCategory,
          result, visualization, loading, error, calls, nOps, examplesCall,
          job, innerBoundary, outerBoundary, heap, refs>>

\* the state of the page, which the computation engine leaves alone
clientVars == <<isDemo, integralType, form, examples, physicsCategory,
                result, visualization, loading, error, calls, nOps,
                examplesCall, innerBoundary, outerBoundary, heap, refs>>

hookVars == <<result, visualization, loading, error>>

sharedVars == <<heap, refs>>

boundaryVars == <<innerBoundary, outerBoundary>>

-----------------------------------------------------------------------------
(* Bounds of the model                                                     *)

MaxOps == 3
MaxPending == 2

-----------------------------------------------------------------------------
(* JavaScript values                                                       *)

Str(s) == [str |-> s]
Num(m, e) == [num |-> m, exp |-> e]
Bool(b) == [bool |-> b]
Arr(seq) == [arr |-> seq]
Samples(n, gen) == [samples |-> gen, length |-> n]
Null == [null |-> TRUE]
Undefined == [undef |-> TRUE]

IsStr(v) == DOMAIN v = {"str"}
IsNum(v) == DOMAIN v = {"num", "exp"}
IsBool(v) == DOMAIN v = {"bool"}
IsArr(v) == DOMAIN v = {"arr"} \/ DOMAIN v = {"samples", "length"}
IsNullish(v) == v = Null \/ v = Undefined
IsPrimitive(v) == IsStr(v) \/ IsNum(v) \/ IsBool(v) \/ IsNullish(v)
\* typeof v === 'object' (true of arrays and of null)
TypeofObject(v) == ~(IsStr(v) \/ IsNum(v) \/ IsBool(v) \/ v = Undefined)
TypeofNumber(v) == IsNum(v)

\* ToBoolean
Truthy(v) ==
    /\ ~IsNullish(v)
    /\ v # Str("")
    /\ v # Bool(FALSE)
    /\ ~(IsNum(v) /\ v.num = 0)

\* a || b
Or(a, b) == IF Truthy(a) THEN a ELSE b

\* o.k for a non-nullish o (a missing property reads as undefined)
Get(o, k) ==
    IF ~IsPrimitive(o) /\ ~IsArr(o) /\ k \in DOMAIN o THEN o[k] ELSE Undefined

\* o?.k
GetOpt(o, k) == IF IsNullish(o) THEN Undefined ELSE Get(o, k)

DigitChar == <<"0", "1", "2", "3", "4", "5", "6", "7", "8", "9">>

RECURSIVE Pow10(_)
Pow10(k) == IF k = 0 THEN 1 ELSE 10 * Pow10(k - 1)

\* the decimal digits of a natural number
RECURSIVE Digits(_)
Digits(n) ==
    IF n < 10 THEN DigitChar[n + 1]
    ELSE Digits(n \div 10) \o DigitChar[(n % 10) + 1]

\* the last k decimal digits of f, zero-padded
RECURSIVE FracDigits(_, _)
FracDigits(f, k) ==
    IF k = 0 THEN "" ELSE FracDigits(f \div 10, k - 1) \o DigitChar[(f % 10) + 1]

\* Number.prototype.toString for m * 10^e (plain decimal notation)
NumberToString(v) ==
    LET a == IF v.num < 0 THEN 0 - v.num ELSE v.num
        sign == IF v.num < 0 THEN "-" ELSE ""
    IN  IF v.exp >= 0 THEN sign \o Digits(a * Pow10(v.exp))
        ELSE sign \o Digits(a \div Pow10(0 - v.exp)) \o "."
                  \o FracDigits(a % Pow10(0 - v.exp), 0 - v.exp)

\* String(v)
String(v) ==
    IF IsStr(v) THEN v
    ELSE IF IsNum(v) THEN Str(NumberToString(v))
    ELSE IF IsBool(v) THEN Str(IF v.bool THEN "true" ELSE "false")
    ELSE IF v = Undefined THEN Str("undefined")
    ELSE IF v = Null THEN Str("null")
    ELSE Str("[object Object]")

\* arr.map(String)
MapString(a) == Arr([i \in DOMAIN a.arr |-> String(a.arr[i])])

-----------------------------------------------------------------------------
(* demoData.js: the pre-computed responses.  Arrays of sampled numbers     *)
(* (Array.from over a formula) are kept as Samples(length, formula).       *)

DEMO_1D == [
    success |-> Bool(TRUE),
    integrand |-> Str("x**2"),
    integrand_latex |-> Str("x^{2}"),
    bounds |-> [lower |-> Str("0"), upper |-> Str("1")],
    result |-> [
        symbolic |-> Str("1/3"),
        symbolic_latex |-> Str("\\frac{1}{3}"),
        numerical |-> Num(333333, -6),
        error |-> Num(37, -16)],
    visualization |-> [
        curve |-> [x |-> Samples(200, "i/199"), y |-> Samples(200, "(i/199)**2")],
        rectangles |-> Samples(20, "{x, width, height}"),
        bounds |-> [a |-> Num(0, 0), b |-> Num(1, 0)]]]

make2DSurface == [
    x |-> Samples(30, "row of x"),
    y |-> Samples(30, "vals"),
    z |-> Samples(30, "x*x + y*y")]

DEMO_2D == [
    success |-> Bool(TRUE),
    integrand |-> Str("x**2 + y**2"),
    integrand_latex |-> Str("x^{2} + y^{2}"),
    region |-> [type |-> Str("rectangle"), x_min |-> Num(0, 0), x_max |-> Num(1, 0),
                y_min |-> Num(0, 0), y_max |-> Num(1, 0)],
    result |-> [
        symbolic |-> Str("2/3"),
        symbolic_latex |-> Str("\\frac{2}{3}"),
        numerical |-> Num(666667, -6),
        error |-> Num(74, -16)],
    visualization |-> [
        surface |-> make2DSurface,
        boundary |-> [x |-> Arr(<<Num(0, 0), Num(1, 0), Num(1, 0), Num(0, 0), Num(0, 0)>>),
                      y |-> Arr(<<Num(0, 0), Num(0, 0), Num(1, 0), Num(1, 0), Num(0, 0)>>)],
        region_type |-> Str("rectangle")]]

DEMO_3D == [
    success |-> Bool(TRUE),
    integrand |-> Str("1"),
    integrand_latex |-> Str("1"),
    region |-> [type |-> Str("box"), x_min |-> Num(0, 0), x_max |-> Num(1, 0),
                y_min |-> Num(0, 0), y_max |-> Num(1, 0),
                z_min |-> Num(0, 0), z_max |-> Num(1, 0)],
    result |-> [
        symbolic |-> Str("1"),
        symbolic_latex |-> Str("1"),
        numerical |-> Num(1, 0),
        error |-> Num(1, -3)],
    visualization |-> [
        points |-> Arr(<<Arr(<<Num(5, -1), Num(5, -1), Num(5, -1)>>)>>),
        values |-> Arr(<<Num(1, 0)>>),
        surfaces |-> Arr(<<
            [x |-> Arr(<<Arr(<<Num(0, 0), Num(1, 0)>>), Arr(<<Num(0, 0), Num(1, 0)>>)>>),
             y |-> Arr(<<Arr(<<Num(0, 0), Num(0, 0)>>), Arr(<<Num(1, 0), Num(1, 0)>>)>>),
             z |-> Arr(<<Arr(<<Num(1, 0), Num(1, 0)>>), Arr(<<Num(1, 0), Num(1, 0)>>)>>),
             name |-> Str("front")],
            [x |-> Arr(<<Arr(<<Num(0, 0), Num(1, 0)>>), Arr(<<Num(0, 0), Num(1, 0)>>)>>),
             y |-> Arr(<<Arr(<<Num(0, 0), Num(0, 0)>>), Arr(<<Num(1, 0), Num(1, 0)>>)>>),
             z |-> Arr(<<Arr(<<Num(0, 0), Num(0, 0)>>), Arr(<<Num(0, 0), Num(0, 0)>>)>>),
             name |-> Str("back")]>>),
        region_type |-> Str("box")]]

DEMO_LINE_SCALAR == [
    success |-> Bool(TRUE),
    integral_type |-> Str("line_scalar"),
    integrand |-> Str("1"),
    integrand_latex |-> Str("1"),
    curve |-> [x |-> Str("cos(t)"), y |-> Str("sin(t)"), z |-> Str("0")],
    result |-> [
        symbolic |-> Str("2*pi"),
        symbolic_latex |-> Str("2 \\pi"),
        numerical |-> Num(6283185, -6),
        error |-> Num(1, -12),
        integrand_latex |-> Str("1")],
    visualization |-> [
        curve |-> [x |-> Samples(100, "cos(2*pi*i/99)"),
                   y |-> Samples(100, "sin(2*pi*i/99)"),
                   z |-> Samples(100, "0")],
        arrows |-> Arr(<<>>),
        t_range |-> Arr(<<Num(0, 0), Num(6283185, -6)>>)]]

DEMO_LINE_VECTOR == [
    success |-> Bool(TRUE),
    integral_type |-> Str("line_vector"),
    vector_field |-> [x |-> Str("-y"), y |-> Str("x"), z |-> Str("0")],
    vector_field_latex |-> [x |-> Str("- y"), y |-> Str("x"), z |-> Str("0")],
    curve |-> [x |-> Str("cos(t)"), y |-> Str("sin(t)"), z |-> Str("0")],
    result |-> [
        symbolic |-> Str("2*pi"),
        symbolic_latex |-> Str("2 \\pi"),
        numerical |-> Num(6283185, -6),
        error |-> Num(1, -12),
        integrand_latex |-> Str("1")],
    visualization |-> [
        curve |-> DEMO_LINE_SCALAR.visualization.curve,
        arrows |-> Samples(10, "{origin, direction}"),
        t_range |-> Arr(<<Num(0, 0), Num(6283185, -6)>>)]]

makeHemisphere == [
    x |-> Samples(20, "sin(u)*cos(v)"),
    y |-> Samples(20, "sin(u)*sin(v)"),
    z |-> Samples(20, "cos(u)")]

DEMO_SURFACE_SCALAR == [
    success |-> Bool(TRUE),
    integral_type |-> Str("surface_scalar"),
    integrand |-> Str("1"),
    integrand_latex |-> Str("1"),
    surface |-> [x |-> Str("sin(u)*cos(v)"), y |-> Str("sin(u)*sin(v)"), z |-> Str("cos(u)")],
    result |-> [
        symbolic |-> Str("2*pi"),
        symbolic_latex |-> Str("2 \\pi"),
        numerical |-> Num(6283185, -6),
        error |-> Num(1, -10),
        normal_vector |-> Arr(<<Str("sin(u)**2*cos(v)"), Str("sin(u)**2*sin(v)"),
                                Str("sin(u)*cos(u)")>>),
        dS_latex |-> Str("\\sin{\\left(u \\right)}")],
    visualization |-> [
        surface |-> makeHemisphere,
        normals |-> Arr(<<[origin |-> Arr(<<Num(0, 0), Num(0, 0), Num(1, 0)>>),
                           direction |-> Arr(<<Num(0, 0), Num(0, 0), Num(1, 0)>>)]>>),
        field_arrows |-> Arr(<<>>),
        u_range |-> Arr(<<Num(0, 0), Num(1570796, -6)>>),
        v_range |-> Arr(<<Num(0, 0), Num(6283185, -6)>>)]]

DEMO_FLUX == [
    success |-> Bool(TRUE),
    integral_type |-> Str("flux"),
    vector_field |-> [x |-> Str("x"), y |-> Str("y"), z |-> Str("z")],
    vector_field_latex |-> [x |-> Str("x"), y |-> Str("y"), z |-> Str("z")],
    surface |-> [x |-> Str("sin(u)*cos(v)"), y |-> Str("sin(u)*sin(v)"), z |-> Str("cos(u)")],
    result |-> [
        symbolic |-> Str("2*pi"),
        symbolic_latex |-> Str("2 \\pi"),
        numerical |-> Num(6283185, -6),
        error |-> Num(1, -10),
        normal_vector |-> Arr(<<Str("sin(u)**2*cos(v)"), Str("sin(u)**2*sin(v)"),
                                Str("sin(u)*cos(u)")>>),
        integrand_latex |-> Str("\\sin^{2}(u)")],
    visualization |-> [
        surface |-> makeHemisphere,
        normals |-> Arr(<<[origin |-> Arr(<<Num(0, 0), Num(0, 0), Num(1, 0)>>),
                           direction |-> Arr(<<Num(0, 0), Num(0, 0), Num(1, 0)>>)]>>),
        field_arrows |-> Arr(<<[origin |-> Arr(<<Num(1, 0), Num(0, 0), Num(0, 0)>>),
                                direction |-> Arr(<<Num(1, 0), Num(0, 0), Num(0, 0)>>)]>>),
        u_range |-> Arr(<<Num(0, 0), Num(1570796, -6)>>),
        v_range |-> Arr(<<Num(0, 0), Num(6283185, -6)>>)]]

DEMO_VECTOR_OPS == [
    gradient |-> [
        success |-> Bool(TRUE),
        operation |-> Str("gradient"),
        input |-> Str("x**2 + y**2 + z**2"),
        input_latex |-> Str("x^{2} + y^{2} + z^{2}"),
        result |-> [x |-> Str("2*x"), y |-> Str("2*y"), z |-> Str("2*z")],
        result_latex |-> [x |-> Str("2 x"), y |-> Str("2 y"), z |-> Str("2 z")]],
    divergence |-> [
        success |-> Bool(TRUE),
        operation |-> Str("divergence"),
        input |-> [x |-> Str("x"), y |-> Str("y"), z |-> Str("z")],
        result |-> Str("3"),
        result_latex |-> Str("3")],
    curl |-> [
        success |-> Bool(TRUE),
        operation |-> Str("curl"),
        input |-> [x |-> Str("-y"), y |-> Str("x"), z |-> Str("0")],
        result |-> [x |-> Str("0"), y |-> Str("0"), z |-> Str("2")],
        result_latex |-> [x |-> Str("0"), y |-> Str("0"), z |-> Str("2")]]]

makeVectorArrows == Samples(125, "{origin: [xi, yi, zi], direction: [-yi, xi, 0]}")

DEMO_VECTOR_FIELD == [
    success |-> Bool(TRUE),
    vector_field |-> [x |-> Str("-y"), y |-> Str("x"), z |-> Str("0")],
    visualization |-> [
        arrows |-> makeVectorArrows,
        region |-> [x_min |-> Num(-2, 0), x_max |-> Num(2, 0), y_min |-> Num(-2, 0),
                    y_max |-> Num(2, 0), z_min |-> Num(-2, 0), z_max |-> Num(2, 0)]]]

DEMO_GREENS == [
    success |-> Bool(TRUE),
    theorem |-> Str("Green's Theorem"),
    P |-> Str("-y/2"),
    Q |-> Str("x/2"),
    line_integral |-> [symbolic |-> Str("pi"), numerical |-> Num(3141593, -6),
                       error |-> Num(1, -12)],
    curl_z |-> Str("1"),
    curl_z_latex |-> Str("1"),
    description |-> Str("oint(P dx + Q dy) = iint(dQ/dx - dP/dy) dA"),
    visualization |-> [
        curve |-> DEMO_LINE_SCALAR.visualization.curve,
        arrows |-> Arr(<<>>),
        t_range |-> Arr(<<Num(0, 0), Num(6283185, -6)>>)]]

DEMO_STOKES == [
    success |-> Bool(TRUE),
    theorem |-> Str("Stokes' Theorem"),
    vector_field |-> [x |-> Str("-y"), y |-> Str("x"), z |-> Str("z**2")],
    curl_F |-> [x |-> Str("0"), y |-> Str("0"), z |-> Str("2")],
    line_integral |-> [symbolic |-> Str("2*pi"), numerical |-> Num(6283185, -6),
                       error |-> Num(1, -12)],
    surface_integral |-> [symbolic |-> Str("2*pi"), numerical |-> Num(6283185, -6),
                          error |-> Num(1, -10)],
    verification |-> [line |-> Num(6283185, -6), surface |-> Num(6283185, -6),
                      difference |-> Num(1, -10)],
    description |-> Str("oint F.dr = iint(nabla x F).dS"),
    visualization |-> [curve |-> DEMO_LINE_SCALAR.visualization,
                       surface |-> DEMO_SURFACE_SCALAR.visualization]]

DEMO_DIVERGENCE == [
    success |-> Bool(TRUE),
    theorem |-> Str("Divergence Theorem"),
    vector_field |-> [x |-> Str("x"), y |-> Str("y"), z |-> Str("z")],
    divergence |-> Str("3"),
    divergence_latex |-> Str("3"),
    flux_integral |-> [symbolic |-> Str("4*pi"), numerical |-> Num(12566371, -6),
                       error |-> Num(1, -2)],
    volume_integral |-> [symbolic |-> Str("4*pi"), numerical |-> Num(12566371, -6),
                         error |-> Num(5, -2)],
    verification |-> [surface |-> Num(12566371, -6), volume |-> Num(12566371, -6),
                      difference |-> Num(1, -3)],
    description |-> Str("iint F.n dS = iiint(nabla.F) dV"),
    visualization |-> DEMO_SURFACE_SCALAR.visualization]

DEMO_FIELD_LINES == [
    success |-> Bool(TRUE),
    field_lines |-> Samples(8, "30 points of a spiral"),
    num_lines |-> Num(8, 0),
    region |-> [x_min |-> Num(-2, 0), x_max |-> Num(2, 0), y_min |-> Num(-2, 0),
                y_max |-> Num(2, 0), z_min |-> Num(-1, 0), z_max |-> Num(1, 0)]]

DEMO_EQUIPOTENTIAL == [
    success |-> Bool(TRUE),
    scalar_field |-> Str("x**2 + y**2"),
    contour_data |-> [x |-> Samples(50, "-2 + 4*i/49"), y |-> Samples(50, "-2 + 4*i/49"),
                      z |-> Samples(50, "x*x + y*y")],
    gradient_arrows |-> Samples(4, "{origin, direction}"),
    z_min |-> Num(0, 0),
    z_max |-> Num(8, 0),
    num_levels |-> Num(1, 1)]

DEMO_PARSE == [
    success |-> Bool(TRUE),
    parsed |-> Str("x**2"),
    latex |-> Str("x^{2}"),
    simplified |-> Str("x**2"),
    simplified_latex |-> Str("x^{2}")]

DEMO_HEALTH == [
    status |-> Str("healthy"),
    message |-> Str("Integration Visualizer API (demo mode)"),
    version |-> Str("2.0.0")]

DEMO_LATEX_EXPORT == [
    success |-> Bool(TRUE),
    latex |-> Str("\\int_{0}^{1} x^{2} \\, dx = \\frac{1}{3}")]

-----------------------------------------------------------------------------
(* demoExamples.js: the example catalog, keyed by integral type            *)

UnitCircle == [x |-> Str("cos(t)"), y |-> Str("sin(t)"), z |-> Str("0")]
UnitSphere == [x |-> Str("sin(u)*cos(v)"), y |-> Str("sin(u)*sin(v)"), z |-> Str("cos(u)")]

DEMO_EXAMPLES ==
    ("1d" :> <<
        [name |-> Str("Polynomial"), integrand |-> Str("x^2"),
         lower_bound |-> Str("0"), upper_bound |-> Str("1")],
        [name |-> Str("Trigonometric"), integrand |-> Str("sin(x)"),
         lower_bound |-> Str("0"), upper_bound |-> Str("pi")],
        [name |-> Str("Gaussian"), integrand |-> Str("exp(-x^2)"),
         lower_bound |-> Str("-3"), upper_bound |-> Str("3")],
        [name |-> Str("Rational"), integrand |-> Str("1/(1+x^2)"),
         lower_bound |-> Str("-10"), upper_bound |-> Str("10")]>>)
 @@ ("2d" :> <<
        [name |-> Str("Rectangle - Polynomial"), integrand |-> Str("x^2 + y^2"),
         region |-> [type |-> Str("rectangle"), x_min |-> Num(0, 0), x_max |-> Num(1, 0),
                     y_min |-> Num(0, 0), y_max |-> Num(1, 0)]],
        [name |-> Str("Disk - Area (pi)"), integrand |-> Str("1"),
         region |-> [type |-> Str("disk"), center |-> Arr(<<Num(0, 0), Num(0, 0)>>),
                     radius |-> Num(1, 0)]]>>)
 @@ ("3d" :> <<
        [name |-> Str("Unit Cube Volume"), integrand |-> Str("1"),
         region |-> [type |-> Str("box"), x_min |-> Num(0, 0), x_max |-> Num(1, 0),
                     y_min |-> Num(0, 0), y_max |-> Num(1, 0),
                     z_min |-> Num(0, 0), z_max |-> Num(1, 0)]],
        [name |-> Str("Sphere Volume (4pi/3)"), integrand |-> Str("1"),
         region |-> [type |-> Str("sphere"),
                     center |-> Arr(<<Num(0, 0), Num(0, 0), Num(0, 0)>>),
                     radius |-> Num(1, 0)]]>>)
 @@ ("line_scalar" :> <<
        [name |-> Str("Circle Arc Length (2pi)"), integrand |-> Str("1"),
         curve |-> UnitCircle, t_start |-> Num(0, 0), t_end |-> Str("2*pi"),
         description |-> Str("Circumference of unit circle")]>>)
 @@ ("line_vector" :> <<
        [name |-> Str("Circulation (2pi)"),
         vector_field |-> [x |-> Str("-y"), y |-> Str("x"), z |-> Str("0")],
         curve |-> UnitCircle, t_start |-> Num(0, 0), t_end |-> Str("2*pi"),
         description |-> Str("Vortex field circulation")]>>)
 @@ ("surface_scalar" :> <<
        [name |-> Str("Hemisphere Area (2pi)"), integrand |-> Str("1"),
         surface |-> UnitSphere,
         u_range |-> Arr(<<Num(0, 0), Str("pi/2")>>),
         v_range |-> Arr(<<Num(0, 0), Str("2*pi")>>),
         description |-> Str("Upper hemisphere")]>>)
 @@ ("flux" :> <<
        [name |-> Str("Radial Flux (Hemisphere)"),
         vector_field |-> [x |-> Str("x"), y |-> Str("y"), z |-> Str("z")],
         surface |-> UnitSphere,
         u_range |-> Arr(<<Num(0, 0), Str("pi/2")>>),
         v_range |-> Arr(<<Num(0, 0), Str("2*pi")>>),
         description |-> Str("F = r through hemisphere")]>>)
 @@ ("vector_operations" :> <<
        [name |-> Str("Gradient: Distance"), operation |-> Str("gradient"),
         scalar_field |-> Str("sqrt(x^2 + y^2 + z^2)"),
         description |-> Str("grad r = r_hat")],
        [name |-> Str("Divergence: Position"), operation |-> Str("divergence"),
         vector_field |-> [x |-> Str("x"), y |-> Str("y"), z |-> Str("z")],
         description |-> Str("div r = 3")],
        [name |-> Str("Curl: Rotation"), operation |-> Str("curl"),
         vector_field |-> [x |-> Str("-y"), y |-> Str("x"), z |-> Str("0")],
         description |-> Str("curl(-y,x,0) = 2k_hat")]>>)
 @@ ("vector_fields" :> <<
        [name |-> Str("Radial Source"),
         vector_field |-> [x |-> Str("x"), y |-> Str("y"), z |-> Str("z")],
         region |-> [x_min |-> Num(-2, 0), x_max |-> Num(2, 0), y_min |-> Num(-2, 0),
                     y_max |-> Num(2, 0), z_min |-> Num(-2, 0), z_max |-> Num(2, 0)],
         description |-> Str("Expanding flow")],
        [name |-> Str("Vortex (z-axis)"),
         vector_field |-> [x |-> Str("-y"), y |-> Str("x"), z |-> Str("0")],
         region |-> [x_min |-> Num(-2, 0), x_max |-> Num(2, 0), y_min |-> Num(-2, 0),
                     y_max |-> Num(2, 0), z_min |-> Num(-1, 0), z_max |-> Num(1, 0)],
         description |-> Str("Rotation about z")]>>)
 @@ ("physics" :> <<
        [name |-> Str("Point Charge E-field"), category |-> Str("electromagnetism"),
         type |-> Str("vector_field"),
         vector_field |-> [x |-> Str("x/(x^2+y^2+z^2)^(3/2)"),
                           y |-> Str("y/(x^2+y^2+z^2)^(3/2)"),
                           z |-> Str("z/(x^2+y^2+z^2)^(3/2)")],
         description |-> Str("E = kq/r^2 radial field"),
         physics_note |-> Str("Coulombs law")],
        [name |-> Str("Gravitational Field"), category |-> Str("mechanics"),
         type |-> Str("vector_field"),
         vector_field |-> [x |-> Str("-x/(x^2+y^2+z^2)^(3/2)"),
                           y |-> Str("-y/(x^2+y^2+z^2)^(3/2)"),
                           z |-> Str("-z/(x^2+y^2+z^2)^(3/2)")],
         description |-> Str("g = -GM/r^2 radial"),
         physics_note |-> Str("Newtons gravitation")]>>)
 @@ ("theorems" :> <<
        [name |-> Str("Green's Theorem (Area)"), type |-> Str("greens"),
         vector_field |-> [x |-> Str("-y/2"), y |-> Str("x/2")],
         curve |-> [x |-> Str("cos(t)"), y |-> Str("sin(t)")],
         t_start |-> Num(0, 0), t_end |-> Str("2*pi"),
         description |-> Str("oint(-y dx + x dy)/2 = Area"), expected |-> Str("pi")],
        [name |-> Str("Divergence Theorem"), type |-> Str("divergence"),
         vector_field |-> [x |-> Str("x"), y |-> Str("y"), z |-> Str("z")],
         surface |-> UnitSphere,
         u_range |-> Arr(<<Num(0, 0), Str("pi")>>),
         v_range |-> Arr(<<Num(0, 0), Str("2*pi")>>),
         description |-> Str("iint F.n dS = iiint div F dV"),
         expected |-> Str("4pi (since div r = 3)")]>>)

-----------------------------------------------------------------------------
(* demoData.js: getDemoResponse(method, path, body); null when no match    *)

getDemoResponse(method, path, body) ==
    IF method = "GET" THEN
        IF path = "/api/health" THEN DEMO_HEALTH
        ELSE IF path = "/api/examples" THEN DEMO_EXAMPLES
        ELSE Null
    ELSE IF path = "/api/parse" THEN DEMO_PARSE
    ELSE IF path = "/api/integrate/1d" THEN DEMO_1D
    ELSE IF path = "/api/integrate/2d" THEN DEMO_2D
    ELSE IF path = "/api/integrate/3d" THEN DEMO_3D
    ELSE IF path = "/api/integrate/line/scalar" THEN DEMO_LINE_SCALAR
    ELSE IF path = "/api/integrate/line/vector" THEN DEMO_LINE_VECTOR
    ELSE IF path = "/api/integrate/surface/scalar" THEN DEMO_SURFACE_SCALAR
    ELSE IF path = "/api/integrate/flux" THEN DEMO_FLUX
    ELSE IF path = "/api/vector/operations" THEN
        LET op == Or(GetOpt(body, "operation"), Str("gradient"))
        IN  Or(Get(DEMO_VECTOR_OPS, op.str), DEMO_VECTOR_OPS.gradient)
    ELSE IF path = "/api/visualize/vector_field" THEN DEMO_VECTOR_FIELD
    ELSE IF path = "/api/theorem/greens" THEN DEMO_GREENS
    ELSE IF path = "/api/theorem/stokes" THEN DEMO_STOKES
    ELSE IF path = "/api/theorem/divergence" THEN DEMO_DIVERGENCE
    ELSE IF path = "/api/physics/field_lines" THEN DEMO_FIELD_LINES
    ELSE IF path = "/api/physics/equipotential" THEN DEMO_EQUIPOTENTIAL
    ELSE IF path = "/api/export/latex" THEN DEMO_LATEX_EXPORT
    ELSE Null

-----------------------------------------------------------------------------
(* api.js                                                                  *)

API_BASE == "/api"

\* a thrown Error, by its message
Throw(msg) == [throw |-> msg]
IsThrow(r) == DOMAIN r = {"throw"}

\* a configuration whose vector line integral sends the scalar integrand
integralConfigLineIntegrand(type, state) ==
    CASE type = Str("1d") ->
            [endpoint |-> "/integrate/1d",
             body |-> [integrand |-> state.integrand,
                       lower_bound |-> Get(state.bounds1D, "lower"),
                       upper_bound |-> Get(state.bounds1D, "upper")]]
      [] type = Str("2d") ->
            [endpoint |-> "/integrate/2d",
             body |-> [integrand |-> state.integrand, region |-> state.region2D]]
      [] type = Str("3d") ->
            [endpoint |-> "/integrate/3d",
             body |-> [integrand |-> state.integrand, region |-> state.region3D]]
      [] type = Str("line_scalar") ->
            [endpoint |-> "/integrate/line/scalar",
             body |-> [integrand |-> state.integrand, curve |-> state.curve,
                       t_start |-> Get(state.tRange, "start"),
                       t_end |-> Get(state.tRange, "end")]]
      [] type = Str("line_vector") ->
            [endpoint |-> "/integrate/line/vector",
             body |-> [integrand |-> state.integrand, curve |-> state.curve,
                       t_start |-> Get(state.tRange, "start"),
                       t_end |-> Get(state.tRange, "end")]]
      [] type = Str("surface_scalar") ->
            [endpoint |-> "/integrate/surface/scalar",
             body |-> [integrand |-> state.integrand, surface |-> state.surface,
                       u_range |-> state.uRange, v_range |-> state.vRange]]
      [] type = Str("flux") ->
            [endpoint |-> "/integrate/flux",
             body |-> [vector_field |-> state.vectorField, surface |-> state.surface,
                       u_range |-> state.uRange, v_range |-> state.vRange]]

\* getComputeConfig: the cases of the seven integral types
integralConfig(type, state) ==
    CASE type = Str("1d") ->
            [endpoint |-> "/integrate/1d",
             body |-> [integrand |-> state.integrand,
                       lower_bound |-> Get(state.bounds1D, "lower"),
                       upper_bound |-> Get(state.bounds1D, "upper")]]
      [] type = Str("2d") ->
            [endpoint |-> "/integrate/2d",
             body |-> [integrand |-> state.integrand, region |-> state.region2D]]
      [] type = Str("3d") ->
            [endpoint |-> "/integrate/3d",
             body |-> [integrand |-> state.integrand, region |-> state.region3D]]
      [] type = Str("line_scalar") ->
            [endpoint |-> "/integrate/line/scalar",
             body |-> [integrand |-> state.integrand, curve |-> state.curve,
                       t_start |-> Get(state.tRange, "start"),
                       t_end |-> Get(state.tRange, "end")]]
      [] type = Str("line_vector") ->
            [endpoint |-> "/integrate/line/vector",
             body |-> [vector_field |-> state.vectorField, curve |-> state.curve,
                       t_start |-> Get(state.tRange, "start"),
                       t_end |-> Get(state.tRange, "end")]]
      [] type = Str("surface_scalar") ->
            [endpoint |-> "/integrate/surface/scalar",
             body |-> [integrand |-> state.integrand, surface |-> state.surface,
                       u_range |-> state.uRange, v_range |-> state.vRange]]
      [] type = Str("flux") ->
            [endpoint |-> "/integrate/flux",
             body |-> [vector_field |-> state.vectorField, surface |-> state.surface,
                       u_range |-> state.uRange, v_range |-> state.vRange]]

\* a vector-operations configuration for an endpoint the demo data lacks
vectorOperationsConfigRenamed(state) ==
    [endpoint |-> "/vector/operation",
     body |-> IF state.vectorOp = Str("gradient")
              THEN [operation |-> state.vectorOp, scalar_field |-> state.scalarField]
              ELSE [operation |-> state.vectorOp, vector_field |-> state.vectorField]]

\* getComputeConfig: case 'vector_operations'
vectorOperationsConfig(state) ==
    [endpoint |-> "/vector/operations",
     body |-> IF state.vectorOp = Str("gradient")
              THEN [operation |-> state.vectorOp, scalar_field |-> state.scalarField]
              ELSE [operation |-> state.vectorOp, vector_field |-> state.vectorField]]

\* a configuration that tells Green's theorem from everything else only
theoremConfigTwoWay(state) ==
    IF state.theoremType = Str("greens") THEN
        [endpoint |-> "/theorem/greens",
         body |-> [P |-> state.P_field, Q |-> state.Q_field,
                   curve |-> [x |-> Get(state.curve, "x"), y |-> Get(state.curve, "y")],
                   t_start |-> Get(state.tRange, "start"),
                   t_end |-> Get(state.tRange, "end")]]
    ELSE
        [endpoint |-> "/theorem/divergence",
         body |-> [vector_field |-> state.vectorField, surface |-> state.surface,
                   volume_region |-> state.region3D,
                   u_range |-> state.uRange, v_range |-> state.vRange]]

\* getComputeConfig: case 'theorems'
theoremConfig(state) ==
    IF state.theoremType = Str("greens") THEN
        [endpoint |-> "/theorem/greens",
         body |-> [P |-> state.P_field, Q |-> state.Q_field,
                   curve |-> [x |-> Get(state.curve, "x"), y |-> Get(state.curve, "y")],
                   t_start |-> Get(state.tRange, "start"),
                   t_end |-> Get(state.tRange, "end")]]
    ELSE IF state.theoremType = Str("stokes") THEN
        [endpoint |-> "/theorem/stokes",
         body |-> [vector_field |-> state.vectorField, surface |-> state.surface,
                   curve |-> state.curve,
                   u_range |-> state.uRange, v_range |-> state.vRange,
                   t_start |-> Get(state.tRange, "start"),
                   t_end |-> Get(state.tRange, "end")]]
    ELSE
        [endpoint |-> "/theorem/divergence",
         body |-> [vector_field |-> state.vectorField, surface |-> state.surface,
                   volume_region |-> state.region3D,
                   u_range |-> state.uRange, v_range |-> state.vRange]]

IntegralKinds == {Str("1d"), Str("2d"), Str("3d"), Str("line_scalar"), Str("line_vector"),
                  Str("surface_scalar"), Str("flux")}

\* a configuration whose default case falls back to the 1-D integral
getComputeConfigFallback(type, state) ==
    CASE type \in IntegralKinds -> integralConfig(type, state)
      [] type = Str("vector_operations") -> vectorOperationsConfig(state)
      [] type \in {Str("vector_fields"), Str("physics")} ->
            [endpoint |-> "/visualize/vector_field",
             body |-> [vector_field |-> state.vectorField,
                       region |-> [x_min |-> Num(-2, 0), x_max |-> Num(2, 0),
                                   y_min |-> Num(-2, 0), y_max |-> Num(2, 0),
                                   z_min |-> Num(-2, 0), z_max |-> Num(2, 0)]]]
      [] type = Str("theorems") -> theoremConfig(state)
      [] type = Str("field_lines") ->
            [endpoint |-> "/physics/field_lines",
             body |-> [vector_field |-> state.vectorField,
                       region |-> [x_min |-> Num(-2, 0), x_max |-> Num(2, 0),
                                   y_min |-> Num(-2, 0), y_max |-> Num(2, 0),
                                   z_min |-> Num(-1, 0), z_max |-> Num(1, 0)],
                       num_lines |-> Num(25, 0), steps |-> Num(15, 1)]]
      [] OTHER -> integralConfig(Str("1d"), state)

\* getComputeConfig(integralType, state): {endpoint, body}, or throws
getComputeConfig(type, state) ==
    CASE type \in IntegralKinds -> integralConfig(type, state)
      [] type = Str("vector_operations") -> vectorOperationsConfig(state)
      [] type \in {Str("vector_fields"), Str("physics")} ->
            [endpoint |-> "/visualize/vector_field",
             body |-> [vector_field |-> state.vectorField,
                       region |-> [x_min |-> Num(-2, 0), x_max |-> Num(2, 0),
                                   y_min |-> Num(-2, 0), y_max |-> Num(2, 0),
                                   z_min |-> Num(-2, 0), z_max |-> Num(2, 0)]]]
      [] type = Str("theorems") -> theoremConfig(state)
      [] type = Str("field_lines") ->
            [endpoint |-> "/physics/field_lines",
             body |-> [vector_field |-> state.vectorField,
                       region |-> [x_min |-> Num(-2, 0), x_max |-> Num(2, 0),
                                   y_min |-> Num(-2, 0), y_max |-> Num(2, 0),
                                   z_min |-> Num(-1, 0), z_max |-> Num(1, 0)],
                       num_lines |-> Num(25, 0), steps |-> Num(15, 1)]]
      [] OTHER -> Throw(Str("Unknown integral type"))

\* demoApiRequest(endpoint, body): the response, or throws
demoApiRequest(endpoint, body) ==
    LET data == getDemoResponse("POST", API_BASE \o endpoint, body)
    IN  IF ~Truthy(data)
        THEN Throw(Str("This endpoint is not available in demo mode"))
        ELSE data

\* realApiRequest(endpoint, body), given the decoded response `data`
\* a request helper that hands every decoded response to its caller
realApiRequestUnchecked(data) == data

realApiRequest(data) ==
    IF ~Truthy(Get(data, "success"))
    THEN Throw(Or(Get(data, "error"), Str("Computation failed")))
    ELSE data

-----------------------------------------------------------------------------
(* The server, as the client sees it in real mode: what fetch and decode   *)
(* can hand to realApiRequest for a request.                               *)

\* a response that reports failure and still carries default values
FailedWithDefaults == [
    success |-> Bool(FALSE),
    error |-> Str("Integral did not converge"),
    result |-> [symbolic |-> Str("0"), numerical |-> Num(0, 0), error |-> Num(0, 0)],
    visualization |-> [curve |-> [x |-> Arr(<<>>), y |-> Arr(<<>>)],
                       rectangles |-> Arr(<<>>),
                       bounds |-> [a |-> Num(0, 0), b |-> Num(0, 0)]]]

\* a response of the numerical fallback: no closed form
NumericOnly == [
    success |-> Bool(TRUE),
    result |-> [symbolic |-> Null, numerical |-> Num(886227, -6), error |-> Num(1, -8)],
    visualization |-> DEMO_1D.visualization]

ServerFailures == {
    FailedWithDefaults,
    [success |-> Bool(FALSE), error |-> Str("")],
    [success |-> Bool(FALSE)]}

\* the decoded responses the server may give to a request
ServerResponses(endpoint, body) ==
    LET same == getDemoResponse("POST", API_BASE \o endpoint, body)
    IN  (IF same = Null THEN {} ELSE {same})
        \cup (IF endpoint = "/integrate/1d" THEN {NumericOnly} ELSE {})
        \cup ServerFailures

\* an apiRequest that always goes to the network
apiRequestFetchAlways(endpoint, body) ==
    [endpoint |-> endpoint, body |-> body, awaits |-> "fetch"]

\* apiRequest(endpoint, body) up to its first await: the simulated delay in
\* demo mode, the fetch of realApiRequest otherwise
apiRequestStart(endpoint, body) ==
    [endpoint |-> endpoint, body |-> body,
     awaits |-> IF isDemo THEN "setTimeout" ELSE "fetch"]

\* what a started apiRequest may settle with: a response, or a throw
apiRequestSettled(call) ==
    IF call.awaits = "setTimeout" THEN {demoApiRequest(call.endpoint, call.body)}
    ELSE {realApiRequest(d) : d \in ServerResponses(call.endpoint, call.body)}
         \cup {Throw(Str("Failed to fetch"))}

\* what `await apiRequest(endpoint, body)` may settle with
apiRequest(endpoint, body) == apiRequestSettled(apiRequestStart(endpoint, body))

\* fetchExamples() up to its first await: none in demo mode (the promise is
\* already resolved), the fetch otherwise
fetchExamplesStart == IF isDemo THEN "resolved" ELSE "fetch"

\* fetchExamples(): the catalog, or a rejection
fetchExamplesSettled(awaits) ==
    IF awaits = "resolved" THEN {getDemoResponse("GET", "/api/examples", Undefined)}
    ELSE {DEMO_EXAMPLES, Throw(Str("Failed to fetch"))}
fetchExamples == fetchExamplesSettled(fetchExamplesStart)

-----------------------------------------------------------------------------
(* hooks/useComputation.js                                                 *)

\* a compute that leaves the previous visualization in place while loading
computeKeepVisualization(type, formState) ==
    LET cfg == getComputeConfig(type, formState)
    IN  /\ result' = Null
        /\ visualization' = visualization
        /\ IF IsThrow(cfg)
           THEN /\ error' = cfg.throw
                /\ loading' = FALSE
                /\ calls' = calls
           ELSE /\ error' = Null
                /\ loading' = TRUE
                /\ calls' = Append(calls, apiRequestStart(cfg.endpoint, cfg.body))

\* a compute that leaves the previous error in place while loading
computeKeepError(type, formState) ==
    LET cfg == getComputeConfig(type, formState)
    IN  /\ result' = Null
        /\ visualization' = Null
        /\ IF IsThrow(cfg)
           THEN /\ error' = cfg.throw
                /\ loading' = FALSE
                /\ calls' = calls
           ELSE /\ error' = error
                /\ loading' = TRUE
                /\ calls' = Append(calls, apiRequestStart(cfg.endpoint, cfg.body))

\* compute(integralType, formState), up to its await: the state is reset and
\* either the request is issued or getComputeConfig's throw is caught
compute(type, formState) ==
    LET cfg == getComputeConfig(type, formState)
    IN  /\ result' = Null
        /\ visualization' = Null
        /\ IF IsThrow(cfg)
           THEN /\ error' = cfg.throw
                /\ loading' = FALSE
                /\ calls' = calls
           ELSE /\ error' = Null
                /\ loading' = TRUE
                /\ calls' = Append(calls, apiRequestStart(cfg.endpoint, cfg.body))

\* a hook that keeps the whole response as its result
StoredResultWhole(data) == data

\* setResult(data.result || data), setVisualization(data.visualization || data)
StoredResult(data) == Or(Get(data, "result"), data)
StoredVisualization(data) == Or(Get(data, "visualization"), data)

RemoveAt(s, i) == SubSeq(s, 1, i - 1) \o SubSeq(s, i + 1, Len(s))

\* a compute whose rejection leaves the loading flag as it was
settleNoFinally(i, r) ==
    /\ calls' = RemoveAt(calls, i)
    /\ IF IsThrow(r)
       THEN /\ error' = r.throw
            /\ UNCHANGED <<result, visualization, loading>>
       ELSE /\ result' = StoredResult(r)
            /\ visualization' = StoredVisualization(r)
            /\ loading' = FALSE
            /\ UNCHANGED error

\* compute, after its await: the i-th pending call settles with outcome r
settle(i, r) ==
    /\ calls' = RemoveAt(calls, i)
    /\ loading' = FALSE
    /\ IF IsThrow(r)
       THEN /\ error' = r.throw
            /\ UNCHANGED <<result, visualization>>
       ELSE /\ result' = StoredResult(r)
            /\ visualization' = StoredVisualization(r)
            /\ UNCHANGED error

\* reset()
reset ==
    /\ result' = Null
    /\ visualization' = Null
    /\ error' = Null
    /\ UNCHANGED <<loading, calls>>

-----------------------------------------------------------------------------
(* App.jsx: state                                                          *)

\* utils/constants: the values of the type selector's buttons
INTEGRAL_TYPES == {
    Str("1d"), Str("2d"), Str("3d"), Str("line_scalar"), Str("line_vector"),
    Str("surface_scalar"), Str("flux"), Str("vector_operations"), Str("vector_fields"),
    Str("physics"), Str("theorems"), Str("field_lines")}

\* the useState initial values of the form
InitForm == [
    integrand |-> Str("x^2"),
    bounds1D |-> [lower |-> Str("0"), upper |-> Str("1")],
    region2D |-> [type |-> Str("rectangle"), x_min |-> Str("0"), x_max |-> Str("1"),
                  y_min |-> Str("0"), y_max |-> Str("1")],
    region3D |-> [type |-> Str("box"), x_min |-> Str("0"), x_max |-> Str("1"),
                  y_min |-> Str("0"), y_max |-> Str("1"),
                  z_min |-> Str("0"), z_max |-> Str("1")],
    vectorField |-> [x |-> Str("-y"), y |-> Str("x"), z |-> Str("0")],
    curve |-> [x |-> Str("cos(t)"), y |-> Str("sin(t)"), z |-> Str("0")],
    tRange |-> [start |-> Str("0"), end |-> Str("2*pi")],
    surface |-> [x |-> Str("sin(u)*cos(v)"), y |-> Str("sin(u)*sin(v)"),
                 z |-> Str("cos(u)")],
    uRange |-> Arr(<<Str("0"), Str("pi/2")>>),
    vRange |-> Arr(<<Str("0"), Str("2*pi")>>),
    scalarField |-> Str("x^2 + y^2 + z^2"),
    vectorOp |-> Str("gradient"),
    theoremType |-> Str("greens"),
    P_field |-> Str("-y/2"),
    Q_field |-> Str("x/2")]

\* { ...o, [k]: v }
With(o, k, v) == [f \in DOMAIN o \cup {k} |-> IF f = k THEN v ELSE o[f]]

\* a?.[i] with i counted from 0
At(a, i) ==
    IF IsNullish(a) THEN Undefined
    ELSE IF DOMAIN a = {"arr"} /\ i + 1 \in DOMAIN a.arr THEN a.arr[i + 1]
    ELSE Undefined

\* the sidebar's conditions
needsIntegrand ==
    integralType \in {Str("1d"), Str("2d"), Str("3d"), Str("line_scalar"),
                      Str("surface_scalar")}
needsVectorFieldAnyOp ==
    \/ integralType \in {Str("line_vector"), Str("flux"), Str("vector_fields"),
                         Str("physics"), Str("field_lines"), Str("vector_operations")}
    \/ (integralType = Str("theorems") /\ form.theoremType # Str("greens"))
needsVectorField ==
    \/ integralType \in {Str("line_vector"), Str("flux"), Str("vector_fields"),
                         Str("physics"), Str("field_lines")}
    \/ (integralType = Str("vector_operations") /\ form.vectorOp # Str("gradient"))
    \/ (integralType = Str("theorems") /\ form.theoremType # Str("greens"))
needsCurve ==
    \/ integralType \in {Str("line_scalar"), Str("line_vector")}
    \/ (integralType = Str("theorems")
        /\ (form.theoremType = Str("greens") \/ form.theoremType = Str("stokes")))
needsSurface ==
    \/ integralType \in {Str("surface_scalar"), Str("flux")}
    \/ (integralType = Str("theorems")
        /\ (form.theoremType = Str("stokes") \/ form.theoremType = Str("divergence")))
showsScalarField ==
    integralType = Str("vector_operations") /\ form.vectorOp = Str("gradient")
showsPQ == integralType = Str("theorems") /\ form.theoremType = Str("greens")

\* texts the user types into an input
TypedTexts == {Str("0")}

VectorOps == {Str("gradient"), Str("divergence"), Str("curl")}
TheoremTypes == {Str("greens"), Str("stokes"), Str("divergence")}
Region2DTypes == {Str("rectangle"), Str("disk"), Str("type_1"), Str("type_2")}
Region3DTypes == {Str("box"), Str("sphere"), Str("cylinder")}

\* the inputs Region2DInput / Region3DInput show for a region type
Region2DFields(type) ==
    CASE type = Str("rectangle") -> {"x_min", "x_max", "y_min", "y_max"}
      [] type = Str("disk") -> {"radius"}
      [] type = Str("type_1") -> {"x_min", "x_max", "y_lower", "y_upper"}
      [] type = Str("type_2") -> {"y_min", "y_max", "x_lower", "x_upper"}
      [] OTHER -> {}
Region3DFields(type) ==
    CASE type = Str("box") -> {"x_min", "x_max", "y_min", "y_max", "z_min", "z_max"}
      [] type = Str("sphere") -> {"radius"}
      [] type = Str("cylinder") -> {"radius", "z_min", "z_max"}
      [] OTHER -> {}

\* the center inputs' onChange: the edited coordinate, the others || 0
CenterWith(region, n, i, v) ==
    Arr([j \in 1..n |-> IF j = i + 1 THEN v
                        ELSE Or(At(Get(region, "center"), j - 1), Num(0, 0))])

\* handleExampleSelect(ex): the new integralType and form
typeMap ==
    [vector_field |-> Str("vector_fields"), flux |-> Str("flux"),
     line_vector |-> Str("line_vector"), line_scalar |-> Str("line_scalar")]
    @@ ("2d" :> Str("2d")) @@ ("3d" :> Str("3d")) @@ ("1d" :> Str("1d"))

ExampleType(ex, type) ==
    IF Truthy(Get(ex, "type")) /\ type = Str("physics")
       /\ IsStr(ex.type) /\ ex.type.str \in DOMAIN typeMap
    THEN typeMap[ex.type.str]
    ELSE type

\* a selection that puts every field the example lacks back to its default
ExampleFormReset(ex, f) ==
    [c \in DOMAIN InitForm |->
        IF c = "integrand" /\ Truthy(Get(ex, "integrand")) THEN ex.integrand
        ELSE IF c = "vectorField" /\ Truthy(Get(ex, "vector_field")) THEN ex.vector_field
        ELSE IF c = "surface" /\ Truthy(Get(ex, "surface")) THEN ex.surface
        ELSE InitForm[c]]

ExampleForm(ex, f) ==
    [integrand |->
        IF Truthy(Get(ex, "integrand")) THEN ex.integrand ELSE f.integrand,
     bounds1D |->
        IF Truthy(Get(ex, "lower_bound"))
        THEN [lower |-> Get(ex, "lower_bound"), upper |-> Get(ex, "upper_bound")]
        ELSE f.bounds1D,
     region3D |->
        IF Truthy(Get(ex, "region")) /\ Get(ex.region, "type") \in Region3DTypes
        THEN ex.region ELSE f.region3D,
     region2D |->
        IF Truthy(Get(ex, "region")) /\ Get(ex.region, "type") \notin Region3DTypes
        THEN ex.region ELSE f.region2D,
     vectorField |->
        IF Truthy(Get(ex, "vector_field")) THEN ex.vector_field ELSE f.vectorField,
     curve |->
        IF Truthy(Get(ex, "curve"))
        THEN [x |-> Or(Get(ex.curve, "x"), Str("cos(t)")),
              y |-> Or(Get(ex.curve, "y"), Str("sin(t)")),
              z |-> Or(Get(ex.curve, "z"), Str("0"))]
        ELSE f.curve,
     tRange |->
        IF Get(ex, "t_start") # Undefined
        THEN [start |-> String(Get(ex, "t_start")), end |-> String(Get(ex, "t_end"))]
        ELSE f.tRange,
     surface |->
        IF Truthy(Get(ex, "surface")) THEN ex.surface ELSE f.surface,
     uRange |->
        IF Truthy(Get(ex, "u_range")) THEN MapString(ex.u_range) ELSE f.uRange,
     vRange |->
        IF Truthy(Get(ex, "v_range")) THEN MapString(ex.v_range) ELSE f.vRange,
     scalarField |->
        IF Truthy(Get(ex, "scalar_field")) THEN ex.scalar_field ELSE f.scalarField,
     vectorOp |->
        IF Truthy(Get(ex, "operation")) THEN ex.operation ELSE f.vectorOp,
     theoremType |-> f.theoremType,
     P_field |-> IF Truthy(Get(ex, "P")) THEN ex.P ELSE f.P_field,
     Q_field |-> IF Truthy(Get(ex, "Q")) THEN ex.Q ELSE f.Q_field]

\* ExamplesPanel: the examples whose buttons are rendered
Seq2Set(s) == {s[i] : i \in DOMAIN s}
ShownExamples ==
    IF ~Truthy(examples) THEN {}
    ELSE IF integralType = Str("physics") THEN
        {e \in Seq2Set(examples["physics"]) :
            physicsCategory = Str("all") \/ Get(e, "category") = physicsCategory}
    ELSE IF integralType = Str("theorems") THEN Seq2Set(examples["theorems"])
    ELSE IF integralType.str \in DOMAIN examples
         THEN LET l == examples[integralType.str]
              IN  {l[i] : i \in {j \in DOMAIN l : j <= 12}}
         ELSE {}

-----------------------------------------------------------------------------
(* App.jsx and the input components: the operations of the user            *)

\* a form operation: one more operation, the hook and the panel untouched
FormOp ==
    /\ nOps < MaxOps
    /\ nOps' = nOps + 1
    /\ UNCHANGED <<boundaryVars, job, sharedVars, examplesCall, isDemo, examples, physicsCategory, result, visualization,
                   loading, error, calls>>

SetForm(field, v) ==
    /\ FormOp
    /\ form' = [form EXCEPT ![field] = v]
    /\ UNCHANGED integralType

\* the type selector's buttons
SetIntegralType(t) ==
    /\ FormOp
    /\ integralType' = t
    /\ UNCHANGED form

SetVectorOp(op) ==
    /\ integralType = Str("vector_operations")
    /\ SetForm("vectorOp", op)

SetTheoremType(tt) ==
    /\ integralType = Str("theorems")
    /\ SetForm("theoremType", tt)

SetP_field(v) == showsPQ /\ SetForm("P_field", v)
SetQ_field(v) == showsPQ /\ SetForm("Q_field", v)
SetIntegrand(v) == needsIntegrand /\ SetForm("integrand", v)
SetScalarField(v) == showsScalarField /\ SetForm("scalarField", v)

\* VectorFieldInput, CurveInput, SurfaceInput, Region1DInput
SetVectorField(k, v) ==
    needsVectorField /\ SetForm("vectorField", With(form.vectorField, k, v))
SetCurve(k, v) == needsCurve /\ SetForm("curve", With(form.curve, k, v))
SetTRange(k, v) == needsCurve /\ SetForm("tRange", With(form.tRange, k, v))
SetSurface(k, v) == needsSurface /\ SetForm("surface", With(form.surface, k, v))
SetURange(i, v) ==
    /\ needsSurface
    /\ SetForm("uRange", IF i = 0 THEN Arr(<<v, At(form.uRange, 1)>>)
                         ELSE Arr(<<At(form.uRange, 0), v>>))
SetVRange(i, v) ==
    /\ needsSurface
    /\ SetForm("vRange", IF i = 0 THEN Arr(<<v, At(form.vRange, 1)>>)
                         ELSE Arr(<<At(form.vRange, 0), v>>))
SetBounds1D(k, v) ==
    integralType = Str("1d") /\ SetForm("bounds1D", With(form.bounds1D, k, v))

\* Region2DInput
SetRegion2DType(type) ==
    integralType = Str("2d") /\ SetForm("region2D", With(form.region2D, "type", type))
SetRegion2DField(k, v) ==
    /\ integralType = Str("2d")
    /\ k \in Region2DFields(Get(form.region2D, "type"))
    /\ SetForm("region2D", With(form.region2D, k, v))
SetRegion2DCenter(i, v) ==
    /\ integralType = Str("2d")
    /\ Get(form.region2D, "type") = Str("disk")
    /\ SetForm("region2D", With(form.region2D, "center", CenterWith(form.region2D, 2, i, v)))

\* Region3DInput
SetRegion3DType(type) ==
    integralType = Str("3d") /\ SetForm("region3D", With(form.region3D, "type", type))
SetRegion3DField(k, v) ==
    /\ integralType = Str("3d")
    /\ k \in Region3DFields(Get(form.region3D, "type"))
    /\ SetForm("region3D", With(form.region3D, k, v))
SetRegion3DCenter(i, v) ==
    /\ integralType = Str("3d")
    /\ \/ /\ Get(form.region3D, "type") = Str("sphere")
          /\ i \in 0..2
          /\ SetForm("region3D",
                     With(form.region3D, "center", CenterWith(form.region3D, 3, i, v)))
       \/ /\ Get(form.region3D, "type") = Str("cylinder")
          /\ i \in 0..1
          /\ SetForm("region3D",
                     With(form.region3D, "center", CenterWith(form.region3D, 2, i, v)))

\* ExamplesPanel: an example's button
handleExampleSelect(ex) ==
    /\ FormOp
    /\ integralType' = ExampleType(ex, integralType)
    /\ form' = ExampleForm(ex, form)

\* ExamplesPanel: the effect that loads the catalog
LoadExamples ==
    /\ examplesCall \in {"resolved", "fetch"}
    /\ \E r \in fetchExamplesSettled(examplesCall) :
          examples' = IF IsThrow(r) THEN examples ELSE r
    /\ examplesCall' = "done"
    /\ UNCHANGED <<boundaryVars, job, sharedVars, isDemo, integralType, form, physicsCategory, result, visualization,
                   loading, error, calls, nOps>>

\* ExamplesPanel: the physics category select
PhysicsCategories ==
    IF ~Truthy(examples) THEN {}
    ELSE {Str("all")} \cup {Get(e, "category") : e \in Seq2Set(examples["physics"])}
SetPhysicsCategory(cat) ==
    /\ Truthy(examples)
    /\ integralType = Str("physics")
    /\ cat \in PhysicsCategories
    /\ nOps < MaxOps
    /\ nOps' = nOps + 1
    /\ physicsCategory' = cat
    /\ UNCHANGED <<boundaryVars, job, sharedVars, examplesCall, isDemo, integralType, form, examples, result, visualization,
                   loading, error, calls>>

\* a Compute button that stays enabled while loading
handleComputeAlways ==
    /\ compute(integralType, form)
    /\ UNCHANGED <<boundaryVars, job, sharedVars, examplesCall, isDemo, integralType, form, examples, physicsCategory, nOps>>

\* the Compute button (disabled while loading)
handleCompute ==
    /\ ~loading
    /\ compute(integralType, form)
    /\ UNCHANGED <<boundaryVars, job, sharedVars, examplesCall, isDemo, integralType, form, examples, physicsCategory, nOps>>

\* a pending call's request settles: fetches in any order, the demo timers
\* (all of 300 ms) in the order they were started
Settle ==
    \E i \in DOMAIN calls :
      \E r \in apiRequestSettled(calls[i]) :
        /\ calls[i].awaits = "setTimeout" => i = 1
        /\ settle(i, r)
        /\ UNCHANGED <<boundaryVars, job, sharedVars, examplesCall, isDemo, integralType, form, examples,
                       physicsCategory, nOps>>

-----------------------------------------------------------------------------
(* The aliasing view.  JavaScript state cells hold references: after       *)
(* setRegion3D(ex.region) the cell and the catalog name one object, and    *)
(* after setResult(data.result) the hook's cell names an object of the     *)
(* demo response.  Objects live in `heap` under an address <<a, n, part>>; *)
(* a property that holds an object holds Ref(address).                     *)

Ref(a) == [ref |-> a]
IsRef(v) == DOMAIN v = {"ref"}

\* the example objects handleExampleSelect stores by reference
ObjectFields == {"region", "vector_field", "surface"}
ExampleKeys ==
    UNION {{<<t, i>> : i \in DOMAIN DEMO_EXAMPLES[t]} : t \in DOMAIN DEMO_EXAMPLES}
ExampleAt(k) == DEMO_EXAMPLES[k[1]][k[2]]
ExampleAddrs ==
    UNION {{<<k[1], k[2], f>> : f \in ObjectFields \cap DOMAIN ExampleAt(k)} :
              k \in ExampleKeys}
CenterAddrs ==
    {<<k[1], k[2], "center">> :
        k \in {e \in ExampleKeys : /\ "region" \in DOMAIN ExampleAt(e)
                                   /\ "center" \in DOMAIN ExampleAt(e).region}}

\* the demo responses compute can receive: the endpoint and, for the vector
\* operations, the place in DEMO_VECTOR_OPS
DemoKeys ==
    {<<getComputeConfig(t, [InitForm EXCEPT !.theoremType = tt]).endpoint, 0>> :
        t \in INTEGRAL_TYPES \ {Str("vector_operations")}, tt \in TheoremTypes}
    \cup {<<"/vector/operations", n>> : n \in 1..3}
DemoOperation(n) == <<Str("gradient"), Str("divergence"), Str("curl")>>[n]
DemoData(k) ==
    getDemoResponse("POST", API_BASE \o k[1],
                    IF k[2] = 0 THEN Null ELSE [operation |-> DemoOperation(k[2])])
DemoParts(k) ==
    {"data"} \cup {p \in {"result", "visualization"} : TypeofObject(Get(DemoData(k), p))}
DemoAddrs == UNION {{<<k[1], k[2], p>> : p \in DemoParts(k)} : k \in DemoKeys}

\* the objects shared by the whole page: module-level data of demoData.js
\* and demoExamples.js
SharedAddrs == ExampleAddrs \cup CenterAddrs \cup DemoAddrs

\* the cells of the client that hold an object, and the address of the
\* object a cell owns (the one its last setter call built)
ObjectCells == {"region2D", "region3D", "vectorField", "surface"}
Own(cell) == <<"own", 0, cell>>
OwnCenter(cell) == <<"own", 1, cell>>
OwnAddrs == {Own(c) : c \in ObjectCells} \cup {OwnCenter(c) : c \in {"region2D", "region3D"}}

\* the content of a shared object at module load
SharedObject(a) ==
    IF a \in ExampleAddrs THEN
        LET o == ExampleAt(a)[a[3]]
        IN  IF "center" \in DOMAIN o
            THEN With(o, "center", Ref(<<a[1], a[2], "center">>))
            ELSE o
    ELSE IF a \in CenterAddrs THEN ExampleAt(a).region.center
    ELSE LET d == DemoData(a)
         IN  IF a[3] = "data"
             THEN [p \in DOMAIN d |->
                     IF p \in DemoParts(a) THEN Ref(<<a[1], a[2], p>>) ELSE d[p]]
             ELSE d[a[3]]

\* the heap after module load and the first render
InitHeap ==
    [a \in SharedAddrs \cup OwnAddrs |->
        IF a \in SharedAddrs THEN SharedObject(a)
        ELSE IF a[2] = 0 THEN InitForm[a[3]]
        ELSE Undefined]
InitRefs ==
    [c \in ObjectCells \cup {"result", "visualization"} |->
        IF c \in ObjectCells THEN Ref(Own(c)) ELSE Null]

\* o with the objects its properties refer to, one level deep
Resolve(h, o) ==
    IF IsPrimitive(o) \/ IsArr(o) THEN o
    ELSE [p \in DOMAIN o |-> IF IsRef(o[p]) THEN h[o[p].ref] ELSE o[p]]

\* owned objects no cell refers to any more are garbage
Collect(h, r) ==
    [a \in DOMAIN h |->
        IF a \in SharedAddrs THEN h[a]
        ELSE IF a[2] = 0 THEN (IF r[a[3]] = Ref(a) THEN h[a] ELSE Undefined)
        ELSE IF r[a[3]] = Ref(Own(a[3])) /\ Get(h[Own(a[3])], "center") = Ref(a)
             THEN h[a] ELSE Undefined]

\* ErrorBoundary: the constructor's state
NoError == [hasError |-> FALSE, error |-> Null]

\* the computation engine before any request
NoRequest ==
    [phase |-> "Idle", dim |-> 0, region |-> "none", budget |-> "none",
     valid |-> FALSE, symbolic |-> "none", method |-> "none"]

Init ==
    /\ isDemo \in BOOLEAN
    /\ integralType = Str("1d")
    /\ form = InitForm
    /\ examples = Null
    /\ physicsCategory = Str("all")
    /\ result = Null
    /\ visualization = Null
    /\ loading = FALSE
    /\ error = Null
    /\ calls = <<>>
    /\ nOps = 0
    /\ examplesCall = fetchExamplesStart
    /\ job = NoRequest
    /\ innerBoundary = Null
    /\ outerBoundary = NoError
    /\ heap = InitHeap
    /\ refs = InitRefs

Edit ==
    \E v \in TypedTexts :
        \/ SetP_field(v)
        \/ SetQ_field(v)
        \/ SetIntegrand(v)
        \/ SetScalarField(v)
        \/ \E k \in {"x", "y", "z"} : SetVectorField(k, v)
        \/ \E k \in {"x", "y", "z"} : SetCurve(k, v)
        \/ \E k \in {"start", "end"} : SetTRange(k, v)
        \/ \E k \in {"x", "y", "z"} : SetSurface(k, v)
        \/ \E i \in 0..1 : SetURange(i, v)
        \/ \E i \in 0..1 : SetVRange(i, v)
        \/ \E k \in {"lower", "upper"} : SetBounds1D(k, v)
        \/ \E k \in Region2DFields(Get(form.region2D, "type")) : SetRegion2DField(k, v)
        \/ \E i \in 0..1 : SetRegion2DCenter(i, v)
        \/ \E k \in Region3DFields(Get(form.region3D, "type")) : SetRegion3DField(k, v)
        \/ \E i \in 0..2 : SetRegion3DCenter(i, v)

Select ==
    \/ \E t \in INTEGRAL_TYPES : SetIntegralType(t)
    \/ \E op \in VectorOps : SetVectorOp(op)
    \/ \E tt \in TheoremTypes : SetTheoremType(tt)
    \/ \E type \in Region2DTypes : SetRegion2DType(type)
    \/ \E type \in Region3DTypes : SetRegion3DType(type)
    \/ \E cat \in PhysicsCategories : SetPhysicsCategory(cat)
    \/ \E ex \in ShownExamples : handleExampleSelect(ex)

\* the form alone: the user's operations on the sidebar
NextForm == LoadExamples \/ Select \/ Edit
SpecForm == Init /\ [][NextForm]_vars

\* the application
Next == LoadExamples \/ Select \/ Edit \/ handleCompute \/ Settle
Spec == Init /\ [][Next]_vars

-----------------------------------------------------------------------------
(* The hook on its own: compute and reset called by any caller, with any   *)
(* integral type, also while an earlier call is pending                    *)

HookTypes == INTEGRAL_TYPES \cup {Str("bogus")}
HookForms == {InitForm,
              [InitForm EXCEPT !.vectorOp = Str("curl"), !.theoremType = Str("stokes")]}

HookCompute ==
    /\ Len(calls) < MaxPending
    /\ \E type \in HookTypes : \E formState \in HookForms : compute(type, formState)
    /\ UNCHANGED <<boundaryVars, job, sharedVars, examplesCall, isDemo, integralType, form, examples, physicsCategory, nOps>>

HookReset ==
    /\ reset
    /\ UNCHANGED <<boundaryVars, job, sharedVars, examplesCall, isDemo, integralType, form, examples, physicsCategory, nOps>>

NextHook == HookCompute \/ Settle \/ HookReset
SpecHook == Init /\ [][NextHook]_vars

\* the hook with the demo-mode timer: setTimeout(r, 300) always fires, while
\* a fetch may stay pending for ever
SpecHookFair == Init /\ [][NextHook]_vars /\ WF_vars(isDemo /\ Settle)

-----------------------------------------------------------------------------
(* Numbers: arithmetic and formatting of m * 10^e                          *)

Abs(n) == IF n < 0 THEN 0 - n ELSE n

\* the same number with no trailing zero in the mantissa
RECURSIVE Normal(_, _)
Normal(m, e) ==
    IF m = 0 THEN Num(0, 0)
    ELSE IF m % 10 = 0 THEN Normal(m \div 10, e + 1)
    ELSE Num(m, e)

\* a - b
NumSub(a, b) ==
    LET e == IF a.exp < b.exp THEN a.exp ELSE b.exp
    IN  Normal(a.num * Pow10(a.exp - e) - b.num * Pow10(b.exp - e), e)

\* Math.abs(a)
NumAbs(a) == Num(Abs(a.num), a.exp)

\* the number of decimal digits of a natural number
RECURSIVE NDigits(_)
NDigits(n) == IF n < 10 THEN 1 ELSE 1 + NDigits(n \div 10)

\* n / 10^k rounded half up
RoundDiv(n, k) == (n + 5 * Pow10(k - 1)) \div Pow10(k)

\* Number.prototype.toFixed(6)
ToFixed6(v) ==
    LET a == Abs(v.num)
        scaled == IF v.exp >= -6 THEN a * Pow10(v.exp + 6)
                  ELSE IF (0 - v.exp) - 6 > NDigits(a) THEN 0
                  ELSE RoundDiv(a, (0 - v.exp) - 6)
        sign == IF v.num < 0 /\ scaled # 0 THEN "-" ELSE ""
    IN  Str(sign \o Digits(scaled \div 1000000) \o "." \o FracDigits(scaled % 1000000, 6))

\* Number.prototype.toExponential(digits), digits in 2..3
ToExponential(v, digits) ==
    LET a == Abs(v.num)
        d == NDigits(a)
        keep == digits + 1
        m0 == IF d <= keep THEN a * Pow10(keep - d) ELSE RoundDiv(a, d - keep)
        carry == m0 >= Pow10(keep)
        m == IF carry THEN m0 \div 10 ELSE m0
        ex == IF a = 0 THEN 0 ELSE v.exp + d - 1 + (IF carry THEN 1 ELSE 0)
        sign == IF v.num < 0 THEN "-" ELSE ""
    IN  Str(sign \o Digits(m \div Pow10(digits)) \o "." \o FracDigits(m % Pow10(digits), digits)
            \o "e" \o (IF ex < 0 THEN "-" ELSE "+") \o Digits(Abs(ex)))

-----------------------------------------------------------------------------
(* components/ResultDisplay.jsx: what each panel renders.  A panel is the  *)
(* record of its parts; Null is a part, or a panel, that renders nothing;  *)
(* Throw is a render that raises.                                          *)

\* ResultDisplay({ result })
ResultDisplay(res) ==
    IF ~Truthy(res) THEN Null
    ELSE IF Truthy(Get(res, "error")) /\ ~IsNum(Get(res, "error"))
         THEN Throw(Str("result.error.toExponential is not a function"))
    ELSE IF Truthy(Get(res, "normal_vector")) /\ ~IsArr(Get(res, "normal_vector"))
         THEN Throw(Str("result.normal_vector.join is not a function"))
    ELSE [numerical |-> IF TypeofNumber(Get(res, "numerical"))
                        THEN ToFixed6(Get(res, "numerical"))
                        ELSE Get(res, "numerical"),
          error |-> IF Truthy(Get(res, "error"))
                    THEN ToExponential(Get(res, "error"), 2) ELSE Null,
          symbolic |-> Or(Get(res, "symbolic"), Str("N/A")),
          normal_vector |-> IF Truthy(Get(res, "normal_vector"))
                            THEN Get(res, "normal_vector") ELSE Null]

\* VectorOperationResult({ result, vectorOp })
VectorOperationResult(res, vectorOp) ==
    IF ~Truthy(GetOpt(res, "result")) THEN Null
    ELSE [title |-> IF vectorOp = Str("gradient") THEN Str("Gradient f")
                    ELSE IF vectorOp = Str("divergence") THEN Str("Div F")
                    ELSE Str("Curl F"),
          components |-> IF TypeofObject(Get(res, "result"))
                         THEN [x |-> Get(Get(res, "result"), "x"),
                               y |-> Get(Get(res, "result"), "y"),
                               z |-> Get(Get(res, "result"), "z")]
                         ELSE Null,
          scalar |-> IF TypeofObject(Get(res, "result")) THEN Null
                     ELSE Get(res, "result")]

\* IntegralBox({ label, value })
IntegralBox(label, value) ==
    [label |-> Str(label),
     numerical |-> IF TypeofNumber(Get(value, "numerical"))
                   THEN ToFixed6(Get(value, "numerical"))
                   ELSE Get(value, "numerical"),
     symbolic |-> IF Truthy(Get(value, "symbolic")) THEN Get(value, "symbolic") ELSE Null]

BoxIf(res, key, label) ==
    IF Truthy(Get(res, key)) THEN IntegralBox(label, Get(res, key)) ELSE Null

\* TheoremResult({ result })
TheoremResult(res) ==
    IF ~Truthy(res) THEN Null
    ELSE IF Truthy(Get(res, "verification"))
            /\ ~IsNum(Get(Get(res, "verification"), "difference"))
         THEN Throw(Str("Cannot read properties of undefined (reading 'toExponential')"))
    ELSE [title |-> Or(Get(res, "theorem"), Str("Theorem Verification")),
          description |-> Get(res, "description"),
          line_integral |-> BoxIf(res, "line_integral", "Line Integral"),
          surface_integral |-> BoxIf(res, "surface_integral", "Surface Integral"),
          flux_integral |-> BoxIf(res, "flux_integral", "Flux F dot n dS"),
          volume_integral |-> BoxIf(res, "volume_integral", "Volume Integral div F dV"),
          verification |->
              IF Truthy(Get(res, "verification"))
              THEN Str("Verification: Difference = "
                       \o ToExponential(Get(Get(res, "verification"), "difference"), 3).str)
              ELSE Null,
          curl_z |-> IF Truthy(Get(res, "curl_z")) THEN Get(res, "curl_z") ELSE Null,
          curl_F |-> IF Truthy(Get(res, "curl_F"))
                     THEN [x |-> Get(Get(res, "curl_F"), "x"),
                           y |-> Get(Get(res, "curl_F"), "y"),
                           z |-> Get(Get(res, "curl_F"), "z")]
                     ELSE Null]

\* FieldLinesResult({ result })
FieldLinesResult(res) ==
    IF ~Truthy(GetOpt(res, "field_lines")) THEN Null
    ELSE [num_lines |-> Get(res, "num_lines")]

\* App.jsx: the content area, from the hook's state and the selected type
ResultPanel == IF Truthy(result) /\ ~loading THEN ResultDisplay(result) ELSE Null
VectorOperationPanel ==
    IF integralType = Str("vector_operations") /\ Truthy(result) /\ ~loading
    THEN VectorOperationResult(result, form.vectorOp) ELSE Null
TheoremPanel ==
    IF integralType = Str("theorems") /\ Truthy(result) /\ ~loading
    THEN TheoremResult(result) ELSE Null
FieldLinesPanel ==
    IF integralType = Str("field_lines") /\ Truthy(result) /\ ~loading
    THEN FieldLinesResult(result) ELSE Null

-----------------------------------------------------------------------------
(* The aliasing view of the client's operations in demo mode: what each    *)
(* handler does to the objects, including the shared ones it was handed    *)

ByReferenceOp ==
    /\ nOps < MaxOps
    /\ nOps' = nOps + 1
    /\ UNCHANGED <<isDemo, integralType, form, examples, physicsCategory,
                   result, visualization, loading, error, calls, examplesCall,
                   job, boundaryVars>>

\* handleExampleSelect(ex): setRegion3D(ex.region) / setRegion2D(ex.region),
\* setVectorField(ex.vector_field), setSurface(ex.surface) store the
\* example's own objects
SelectByReference(k) ==
    LET ex == ExampleAt(k)
        region == heap[<<k[1], k[2], "region">>]
        solid == "region" \in DOMAIN ex /\ Get(region, "type") \in Region3DTypes
    IN  /\ ByReferenceOp
        /\ refs' = [refs EXCEPT
              !.region3D = IF solid THEN Ref(<<k[1], k[2], "region">>) ELSE @,
              !.region2D = IF "region" \in DOMAIN ex /\ ~solid
                           THEN Ref(<<k[1], k[2], "region">>) ELSE @,
              !.vectorField = IF "vector_field" \in DOMAIN ex
                              THEN Ref(<<k[1], k[2], "vector_field">>) ELSE @,
              !.surface = IF "surface" \in DOMAIN ex
                          THEN Ref(<<k[1], k[2], "surface">>) ELSE @]
        /\ heap' = Collect(heap, refs')

\* an input that writes the property into the object it was handed
EditInPlace(cell, p, v) ==
    /\ ByReferenceOp
    /\ refs' = refs
    /\ heap' = [heap EXCEPT ![refs[cell].ref] = With(@, p, v)]

\* onChange({ ...object, [p]: v }): the cell gets a new object, built from a
\* read of the old one
EditByReference(cell, p, v) ==
    /\ ByReferenceOp
    /\ refs' = [refs EXCEPT ![cell] = Ref(Own(cell))]
    /\ heap' = Collect([heap EXCEPT ![Own(cell)] = With(heap[refs[cell].ref], p, v)],
                       refs')

\* onChange({ ...region, center: [v, region.center?.[1] || 0] }): a new array
\* and a new region
CenterByReference(cell, n, i, v) ==
    LET o == heap[refs[cell].ref]
    IN  /\ ByReferenceOp
        /\ refs' = [refs EXCEPT ![cell] = Ref(Own(cell))]
        /\ heap' = Collect(
              [heap EXCEPT ![OwnCenter(cell)] = CenterWith(Resolve(heap, o), n, i, v),
                           ![Own(cell)] = With(o, "center", Ref(OwnCenter(cell)))],
              refs')

\* a demo computation, from compute to its settling: getDemoResponse hands
\* out the module's own response object, and the hook stores data.result and
\* data.visualization (or data) by reference
ComputeByReference(k) ==
    LET at == <<k[1], k[2], "data">>
        data == heap[at]
    IN  /\ ByReferenceOp
        /\ refs' = [refs EXCEPT
              !.result = IF Truthy(Get(data, "result")) THEN data.result ELSE Ref(at),
              !.visualization = IF Truthy(Get(data, "visualization"))
                                THEN data.visualization ELSE Ref(at)]
        /\ heap' = heap

\* the properties an input of the cell's object edits
CellInputs(cell, o) ==
    CASE cell = "region2D" -> Region2DFields(Get(o, "type"))
      [] cell = "region3D" -> Region3DFields(Get(o, "type"))
      [] OTHER -> {"x", "y", "z"}

EditsByReference ==
    \E cell \in ObjectCells :
      LET o == heap[refs[cell].ref]
      IN  \/ \E p \in CellInputs(cell, o) : \E v \in TypedTexts :
                EditByReference(cell, p, v)
          \/ /\ cell = "region2D"
             /\ \E type \in Region2DTypes : EditByReference(cell, "type", type)
          \/ /\ cell = "region3D"
             /\ \E type \in Region3DTypes : EditByReference(cell, "type", type)
          \/ /\ cell = "region2D" /\ Get(o, "type") = Str("disk")
             /\ \E i \in 0..1 : \E v \in TypedTexts : CenterByReference(cell, 2, i, v)
          \/ /\ cell = "region3D" /\ Get(o, "type") = Str("sphere")
             /\ \E i \in 0..2 : \E v \in TypedTexts : CenterByReference(cell, 3, i, v)
          \/ /\ cell = "region3D" /\ Get(o, "type") = Str("cylinder")
             /\ \E i \in 0..1 : \E v \in TypedTexts : CenterByReference(cell, 2, i, v)

SelectsByReference == \E k \in ExampleKeys : SelectByReference(k)
ComputesByReference == \E k \in DemoKeys : ComputeByReference(k)

InitShared == Init /\ isDemo
NextShared == SelectsByReference \/ EditsByReference \/ ComputesByReference
SpecShared == InitShared /\ [][NextShared]_vars

\* ---------------------------------------------------------------------------
\* The computation engine: the Integration Dispatcher
\*   Received -> Validating -> SymbolicAttempt -> SymbolicSucceeded | SymbolicFailed
\*   -> NumericFallback -> Quadrature | MonteCarlo -> Completed | Failed

\* integration requests: the dimension with its region classes
Dimensions == {1, 2, 3}
RegionClasses(dim) ==
    IF dim = 1 THEN {"Interval"}
    ELSE IF dim = 2 THEN {"Rectangle", "Disk"}
    ELSE {"Box", "Sphere", "Cylinder"}

\* the sample budget of a request: not given, within the ceiling, above it
SampleBudgets == {"none", "within", "above"}

\* region classes that only Monte Carlo integrates
MonteCarloOnly == {"Sphere", "Cylinder"}

\* a fallback that samples whenever a sample budget was asked for
NumericMethodByBudget(j) ==
    IF j.budget # "none" \/ j.region \in MonteCarloOnly THEN "MonteCarlo"
    ELSE "Quadrature"

\* policy 3: 1-D/2-D always adaptive quadrature; 3-D quadrature for Box,
\* Monte Carlo for Sphere/Cylinder or when the sample budget is explicit
NumericMethod(j) ==
    IF j.dim \in {1, 2} THEN "Quadrature"
    ELSE IF j.region \in MonteCarloOnly \/ j.budget # "none" THEN "MonteCarlo"
    ELSE "Quadrature"

Terminal == {"Idle", "Completed", "Failed"}

\* a request arrives; requests are independent of each other
Received(dim, region, budget, valid) ==
    /\ job.phase \in Terminal
    /\ job' = [phase |-> "Received", dim |-> dim, region |-> region,
               budget |-> budget, valid |-> valid,
               symbolic |-> "none", method |-> "none"]
    /\ UNCHANGED clientVars

\* Received -> Validating
Validating ==
    /\ job.phase = "Received"
    /\ job' = [job EXCEPT !.phase = "Validating"]
    /\ UNCHANGED clientVars

\* policy 1: validation errors are returned before any computation begins;
\* policy 2: otherwise the closed form is attempted
SymbolicAttempt ==
    /\ job.phase = "Validating"
    /\ job' = IF job.valid
              THEN [job EXCEPT !.phase = "SymbolicAttempt", !.symbolic = "attempted"]
              ELSE [job EXCEPT !.phase = "Failed"]
    /\ UNCHANGED clientVars

\* the closed-form attempt succeeds
SymbolicSucceeded ==
    /\ job.phase = "SymbolicAttempt"
    /\ job.region \notin MonteCarloOnly
    /\ job' = [job EXCEPT !.phase = "SymbolicSucceeded", !.symbolic = "succeeded",
                          !.method = "symbolic"]
    /\ UNCHANGED clientVars

\* the closed-form attempt fails, or runs out of its time budget
SymbolicFailed ==
    /\ job.phase = "SymbolicAttempt"
    /\ job' = [job EXCEPT !.phase = "SymbolicFailed", !.symbolic = "failed"]
    /\ UNCHANGED clientVars

\* SymbolicFailed -> NumericFallback
NumericFallback ==
    /\ job.phase = "SymbolicFailed"
    /\ job' = [job EXCEPT !.phase = "NumericFallback"]
    /\ UNCHANGED clientVars

\* NumericFallback -> Quadrature | MonteCarlo
ChooseNumeric ==
    /\ job.phase = "NumericFallback"
    /\ job' = [job EXCEPT !.phase = NumericMethod(job)]
    /\ UNCHANGED clientVars

\* SymbolicSucceeded -> Completed: the closed form with its numeric value
CompleteSymbolic ==
    /\ job.phase = "SymbolicSucceeded"
    /\ job' = [job EXCEPT !.phase = "Completed"]
    /\ UNCHANGED clientVars

\* Quadrature -> Completed (non-convergence is a flagged estimate), or
\* Failed when the result is entirely non-finite
Quadrature ==
    /\ job.phase = "Quadrature"
    /\ \E finite \in BOOLEAN :
         job' = [job EXCEPT !.phase = IF finite THEN "Completed" ELSE "Failed",
                            !.method = "quadrature"]
    /\ UNCHANGED clientVars

\* MonteCarlo -> Completed, or Failed: a budget above the ceiling is
\* LimitExceeded, an entirely non-finite result NumericInstability
MonteCarlo ==
    /\ job.phase = "MonteCarlo"
    /\ \E finite \in BOOLEAN :
         job' = [job EXCEPT !.phase = IF finite /\ job.budget # "above"
                                      THEN "Completed" ELSE "Failed",
                            !.method = "monte_carlo"]
    /\ UNCHANGED clientVars

Receives ==
    \E dim \in Dimensions, budget \in SampleBudgets, valid \in BOOLEAN :
      \E region \in RegionClasses(dim) : Received(dim, region, budget, valid)

Dispatch ==
    \/ Validating
    \/ SymbolicAttempt
    \/ SymbolicSucceeded
    \/ SymbolicFailed
    \/ NumericFallback
    \/ ChooseNumeric
    \/ CompleteSymbolic
    \/ Quadrature
    \/ MonteCarlo

NextDispatcher ==
    \/ Receives
    \/ Dispatch

\* every step of a request is bounded in time (the symbolic attempt by its
\* time budget), so a request that can step does step
SpecDispatcher == Init /\ [][NextDispatcher]_vars /\ WF_vars(Dispatch)

\* App.jsx: the visualization block, the component rendered and its data
VisualizationPanel ==
    IF Truthy(visualization) /\ ~loading
    THEN [component |-> IF integralType = Str("1d")
                        THEN "Visualization1D" ELSE "Visualization3D",
          data |-> visualization]
    ELSE Null

\* App.jsx: the form's state cells the sidebar shows for editing under the
\* current selection
ShownCells ==
    (IF integralType = Str("vector_operations") THEN {"vectorOp"} ELSE {})
    \cup (IF integralType = Str("theorems") THEN {"theoremType"} ELSE {})
    \cup (IF showsPQ THEN {"P_field", "Q_field"} ELSE {})
    \cup (IF needsIntegrand THEN {"integrand"} ELSE {})
    \cup (IF showsScalarField THEN {"scalarField"} ELSE {})
    \cup (IF needsVectorField THEN {"vectorField"} ELSE {})
    \cup (IF needsCurve THEN {"curve", "tRange"} ELSE {})
    \cup (IF needsSurface THEN {"surface", "uRange", "vRange"} ELSE {})
    \cup (IF integralType = Str("1d") THEN {"bounds1D"} ELSE {})
    \cup (IF integralType = Str("2d") THEN {"region2D"} ELSE {})
    \cup (IF integralType = Str("3d") THEN {"region3D"} ELSE {})

\* ---------------------------------------------------------------------------
\* The error boundaries: the page inside the outer ErrorBoundary, the
\* visualization block inside an inner one that exists while the block is
\* rendered

\* array.length
Length(a) == IF DOMAIN a = {"arr"} THEN Len(a.arr) ELSE a.length

\* the TypeError of reading a property of undefined
TypeErrorReading(prop) ==
    [name |-> Str("TypeError"),
     message |-> Str("Cannot read properties of undefined (reading '" \o prop \o "')")]

\* Visualization1D's effect: the error it throws for its data, or null
Visualization1DError(data) ==
    IF ~Truthy(data) THEN Null
    ELSE LET curve == Get(data, "curve")
             rectangles == Get(data, "rectangles")
             bounds == Get(data, "bounds")
         IN  IF IsNullish(bounds) THEN TypeErrorReading("a")
             ELSE IF IsNullish(curve) THEN TypeErrorReading("y")
             ELSE IF IsNullish(Get(curve, "y")) THEN TypeErrorReading("filter")
             ELSE IF IsNullish(rectangles) THEN TypeErrorReading("forEach")
             ELSE Null

\* Visualization3D's effect: the error it throws for its data, or null
Visualization3DError(data) ==
    IF ~Truthy(data) THEN Null
    ELSE LET surf == Get(data, "surface")
             pts == Get(data, "points")
             curveData == Get(data, "curve")
         IN  IF Truthy(surf) /\ IsNullish(Get(surf, "x")) THEN TypeErrorReading("length")
             ELSE IF Truthy(surf) /\ Length(surf.x) > 0
                     /\ (IsNullish(Get(surf, "y")) \/ IsNullish(Get(surf, "z")))
                  THEN TypeErrorReading("0")
             ELSE IF Truthy(pts) /\ IsNullish(Get(data, "values"))
                  THEN TypeErrorReading("filter")
             ELSE IF Truthy(curveData) /\ IsNullish(Get(curveData, "x"))
                  THEN TypeErrorReading("length")
             ELSE IF Truthy(curveData) /\ Length(curveData.x) > 0
                     /\ (IsNullish(Get(curveData, "z")) \/ IsNullish(Get(curveData, "y")))
                  THEN TypeErrorReading("0")
             ELSE Null

\* the error thrown under the visualization block as rendered, or null
VisualizationError(panel) ==
    IF panel = Null THEN Null
    ELSE IF panel.component = "Visualization1D" THEN Visualization1DError(panel.data)
    ELSE Visualization3DError(panel.data)

\* ErrorBoundary.getDerivedStateFromError
getDerivedStateFromError(err) == [hasError |-> TRUE, error |-> err]

\* ErrorBoundary.render: the fallback's message, or null when the children
\* are rendered
Fallback(boundary) ==
    IF boundary # Null /\ boundary.hasError
    THEN Or(GetOpt(boundary.error, "message"), Str("An unexpected error occurred"))
    ELSE Null

\* a page without the boundary around the visualization: the error reaches
\* the boundary around the page
RenderNoInner ==
    LET err == VisualizationError(VisualizationPanel')
    IN  /\ innerBoundary' = IF VisualizationPanel' = Null THEN Null ELSE NoError
        /\ outerBoundary' = IF err # Null THEN getDerivedStateFromError(err)
                            ELSE outerBoundary

\* the render that follows a state change: the block's boundary is created
\* with the block and dropped with it; a boundary in its error state keeps
\* showing the fallback; otherwise the children render and an error thrown
\* by them is caught by the nearest boundary, the inner one
Render ==
    LET err == VisualizationError(VisualizationPanel')
    IN  /\ innerBoundary' =
             IF VisualizationPanel' = Null THEN Null
             ELSE IF innerBoundary # Null /\ innerBoundary.hasError THEN innerBoundary
             ELSE IF err # Null THEN getDerivedStateFromError(err)
             ELSE NoError
        /\ outerBoundary' = outerBoundary

\* the page is rendered (the outer boundary shows its children)
PageRendered == ~outerBoundary.hasError

BoundaryFrame ==
    UNCHANGED <<job, sharedVars, examplesCall, isDemo, examples, physicsCategory, nOps>>

\* the type selector's buttons, and the render
SelectTypeRendered(t) ==
    /\ PageRendered
    /\ integralType' = t
    /\ UNCHANGED <<form, hookVars, calls>>
    /\ Render
    /\ BoundaryFrame

\* the Theorem select, and the render
SelectTheoremRendered(tt) ==
    /\ PageRendered
    /\ integralType = Str("theorems")
    /\ form' = [form EXCEPT !.theoremType = tt]
    /\ UNCHANGED <<integralType, hookVars, calls>>
    /\ Render
    /\ BoundaryFrame

\* the Compute button, and the render
ComputeRendered ==
    /\ PageRendered
    /\ ~loading
    /\ compute(integralType, form)
    /\ UNCHANGED <<integralType, form>>
    /\ Render
    /\ BoundaryFrame

\* the pending call settles, and the render
SettleRendered ==
    /\ \E i \in DOMAIN calls :
         \E r \in apiRequestSettled(calls[i]) :
           /\ calls[i].awaits = "setTimeout" => i = 1
           /\ settle(i, r)
    /\ UNCHANGED <<integralType, form>>
    /\ Render
    /\ BoundaryFrame

\* the fallback's Try Again button: setState({hasError: false, error: null}),
\* and the render of the children that follows
TryAgain ==
    /\ PageRendered
    /\ innerBoundary # Null /\ innerBoundary.hasError
    /\ LET err == VisualizationError(VisualizationPanel)
       IN  innerBoundary' = IF err # Null THEN getDerivedStateFromError(err)
                            ELSE NoError
    /\ UNCHANGED <<outerBoundary, integralType, form, hookVars, calls>>
    /\ BoundaryFrame

NextBoundary ==
    \/ \E t \in INTEGRAL_TYPES : SelectTypeRendered(t)
    \/ \E tt \in TheoremTypes : SelectTheoremRendered(tt)
    \/ ComputeRendered
    \/ SettleRendered
    \/ TryAgain

SpecBoundary == Init /\ [][NextBoundary]_vars

\* ---------------------------------------------------------------------------
\* Properties
\* ---------------------------------------------------------------------------

\* the requests the client can issue from the forms of HookForms, and every
\* decoded response a server may give to one of them
HookRequests == {getComputeConfig(t, f) : t \in INTEGRAL_TYPES, f \in HookForms}
HookResponses == UNION {ServerResponses(c.endpoint, c.body) : c \in HookRequests}

\* C1: after a successful vector_operations computation (here: in demo mode,
\* where the API's answer is known), the panel App renders
\* from the hook's result is non-empty and shows the x, y, z components of a
\* vector answer or the scalar of a scalar answer.
C1_VectorOperationShown ==
    \A op \in VectorOps :
      LET d == getDemoResponse("POST", API_BASE \o "/vector/operations",
                               [operation |-> op])
      IN  (/\ isDemo
           /\ integralType = Str("vector_operations")
           /\ form.vectorOp = op
           /\ ~loading
           /\ error = Null
           /\ result = StoredResult(d))
          => /\ VectorOperationPanel # Null
             /\ IF TypeofObject(d.result)
                THEN VectorOperationPanel.components = d.result
                ELSE VectorOperationPanel.scalar = d.result

\* C2: whatever compute and reset calls were made, overlapping or not, result
\* and visualization are both null or were both taken from one API response.
C2_SameResponse ==
    \/ result = Null /\ visualization = Null
    \/ \E d \in HookResponses :
         /\ result = StoredResult(d)
         /\ visualization = StoredVisualization(d)

\* C2 witness: a call settled while a later, overlapping call is still pending
C2_OverlapSettled ==
    /\ Len(calls) >= 1
    /\ result # Null
    /\ visualization # Null
    /\ ~loading

\* the error text a failed response leaves: its own, or the default
FailureText(d) ==
    IF Truthy(Get(d, "error")) THEN Get(d, "error") ELSE Str("Computation failed")

\* C3 (state part): while an error is shown nothing is stored and loading is
\* over, and no stored result or visualization comes from a failed response.
C3_NothingStored ==
    /\ error # Null => (result = Null /\ visualization = Null /\ ~loading)
    /\ \A d \in ServerFailures :
         result # StoredResult(d) /\ visualization # StoredVisualization(d)

\* C3 (step part): when the server's response to the pending request has a
\* falsy success field, the call ends with that response's error text, or
\* 'Computation failed', and with result and visualization null, loading false.
C3_FailedSettle ==
    \A i \in DOMAIN calls :
      \A d \in ServerResponses(calls[i].endpoint, calls[i].body) :
        (/\ ~isDemo
         /\ ~Truthy(Get(d, "success"))
         /\ settle(i, realApiRequest(d)))
        => /\ error' = FailureText(d)
           /\ result' = Null
           /\ visualization' = Null
           /\ loading' = FALSE

\* C3: a response whose success field is falsy is never stored; the call ends
\* with the error set to the response's error text (or 'Computation failed'),
\* result and visualization null, loading false.
C3_FailureNeverStored == [](C3_NothingStored) /\ [][C3_FailedSettle]_vars

\* C3 witness: a failed response has been received and its text is the error
C3_FailureShown ==
    /\ ~isDemo
    /\ ~loading
    /\ error = Str("Integral did not converge")
    /\ result = Null
    /\ visualization = Null

\* C4: the 2-D region of the form always has one of the four 2-D tags and the
\* 3-D region one of the three 3-D tags, and so has the region of every
\* integrate_2d / integrate_3d request the form would send (here: in demo
\* mode, where the examples lists are the built-in catalog).
C4_RegionTagClosed ==
    isDemo =>
       /\ Get(form.region2D, "type") \in Region2DTypes
       /\ Get(form.region3D, "type") \in Region3DTypes
       /\ Get(getComputeConfig(Str("2d"), form).body.region, "type") \in Region2DTypes
       /\ Get(getComputeConfig(Str("3d"), form).body.region, "type") \in Region3DTypes

\* README, API: the documented endpoint of each integral type
DocumentedEndpoint(type) ==
    CASE type = Str("1d") -> "/api/integrate/1d"
      [] type = Str("2d") -> "/api/integrate/2d"
      [] type = Str("3d") -> "/api/integrate/3d"
      [] type = Str("line_scalar") -> "/api/integrate/line/scalar"
      [] type = Str("line_vector") -> "/api/integrate/line/vector"
      [] type = Str("surface_scalar") -> "/api/integrate/surface/scalar"
      [] type = Str("flux") -> "/api/integrate/flux"

\* the inputs the interface table lists for an integral type, from the form
ListedInputs(type, f) ==
    CASE type = Str("1d") ->
            [integrand |-> f.integrand, lower_bound |-> f.bounds1D.lower,
             upper_bound |-> f.bounds1D.upper]
      [] type = Str("2d") -> [integrand |-> f.integrand, region |-> f.region2D]
      [] type = Str("3d") -> [integrand |-> f.integrand, region |-> f.region3D]
      [] type = Str("line_scalar") ->
            [integrand |-> f.integrand, curve |-> f.curve,
             t_start |-> f.tRange.start, t_end |-> f.tRange.end]
      [] type = Str("line_vector") ->
            [vector_field |-> f.vectorField, curve |-> f.curve,
             t_start |-> f.tRange.start, t_end |-> f.tRange.end]
      [] type = Str("surface_scalar") ->
            [integrand |-> f.integrand, surface |-> f.surface,
             u_range |-> f.uRange, v_range |-> f.vRange]
      [] type = Str("flux") ->
            [vector_field |-> f.vectorField, surface |-> f.surface,
             u_range |-> f.uRange, v_range |-> f.vRange]

\* the single-valued inputs of a body are text
TextInputs(body) ==
    /\ \A k \in DOMAIN body \cap {"integrand", "lower_bound", "upper_bound",
                                  "t_start", "t_end"} : IsStr(body[k])
    /\ \A k \in DOMAIN body \cap {"u_range", "v_range"} :
         /\ DOMAIN body[k] = {"arr"}
         /\ \A i \in DOMAIN body[k].arr : IsStr(body[k].arr[i])

\* C5: for each of the seven integral types and every form state the sidebar
\* can produce, getComputeConfig gives the documented endpoint and a body of
\* exactly the listed inputs, each equal to the form's value and text.
C5_IntegralRequest ==
    \A t \in IntegralKinds :
      LET cfg == getComputeConfig(t, form)
      IN  /\ ~IsThrow(cfg)
          /\ API_BASE \o cfg.endpoint = DocumentedEndpoint(t)
          /\ cfg.body = ListedInputs(t, form)
          /\ TextInputs(cfg.body)

\* C5 witness: the request of a vector line integral is pending, issued from a
\* form whose field and t-range came from an example or an edit
C5_EditedRequestSent ==
    /\ integralType = Str("line_vector")
    /\ Len(calls) = 1
    /\ calls[1].endpoint = getComputeConfig(integralType, form).endpoint
    /\ calls[1].body = getComputeConfig(integralType, form).body
    /\ form.vectorField # InitForm.vectorField
    /\ form.curve # InitForm.curve

\* C6: the body of a vector_operation request carries the operation; with it
\* scalar_field and no vector_field exactly for gradient, vector_field and no
\* scalar_field for divergence and curl; and with vector_operations selected
\* the sidebar shows the scalar input exactly for gradient and the
\* vector-field input exactly for divergence and curl.
C6_VectorOperationRequest ==
    LET b == getComputeConfig(Str("vector_operations"), form).body
    IN  /\ form.vectorOp \in VectorOps
        /\ b.operation = form.vectorOp
        /\ (form.vectorOp = Str("gradient")) <=> ("scalar_field" \in DOMAIN b)
        /\ (form.vectorOp \in {Str("divergence"), Str("curl")})
              <=> ("vector_field" \in DOMAIN b)
        /\ ~({"scalar_field", "vector_field"} \subseteq DOMAIN b)
        /\ "scalar_field" \in DOMAIN b => b.scalar_field = form.scalarField
        /\ "vector_field" \in DOMAIN b => b.vector_field = form.vectorField
        /\ integralType = Str("vector_operations") =>
              /\ showsScalarField <=> (form.vectorOp = Str("gradient"))
              /\ needsVectorField
                    <=> (form.vectorOp \in {Str("divergence"), Str("curl")})

\* C6 witness: a curl request is pending and the sidebar shows the field input
C6_CurlRequested ==
    /\ integralType = Str("vector_operations")
    /\ form.vectorOp = Str("curl")
    /\ Len(calls) = 1
    /\ calls[1].body = [operation |-> Str("curl"), vector_field |-> form.vectorField]
    /\ needsVectorField
    /\ ~showsScalarField

\* C7: for each theorem tag the request goes to /theorem/<tag> and carries the
\* entered field (P and Q for Green's theorem, the vector field otherwise)
\* with the curve and t-range (greens, stokes), the surface and u/v-ranges
\* (stokes, divergence) and the volume region (divergence); the tag is always
\* one of the three.
C7_TheoremRequest ==
    LET cfg == getComputeConfig(Str("theorems"), form)
        b == cfg.body
        tag == form.theoremType
    IN  /\ tag \in TheoremTypes
        /\ cfg.endpoint = "/theorem/" \o tag.str
        /\ tag = Str("greens") =>
              b = [P |-> form.P_field, Q |-> form.Q_field,
                   curve |-> [x |-> Get(form.curve, "x"), y |-> Get(form.curve, "y")],
                   t_start |-> form.tRange.start, t_end |-> form.tRange.end]
        /\ tag = Str("stokes") =>
              b = [vector_field |-> form.vectorField, curve |-> form.curve,
                   t_start |-> form.tRange.start, t_end |-> form.tRange.end,
                   surface |-> form.surface,
                   u_range |-> form.uRange, v_range |-> form.vRange]
        /\ tag = Str("divergence") =>
              b = [vector_field |-> form.vectorField, surface |-> form.surface,
                   u_range |-> form.uRange, v_range |-> form.vRange,
                   volume_region |-> form.region3D]

\* C7 witness: a Stokes request is pending, issued from the form
C7_StokesRequested ==
    /\ integralType = Str("theorems")
    /\ form.theoremType = Str("stokes")
    /\ Len(calls) = 1
    /\ calls[1].body = getComputeConfig(integralType, form).body
    /\ calls[1].endpoint = "/theorem/stokes"

\* C8: the stored response of every demo-mode theorem computation carries a
\* verification record with both values and their difference, and the
\* theorem panel shows a 'Verification: Difference' line.
C8_DifferenceShown ==
    \A tag \in TheoremTypes :
      LET d == getDemoResponse("POST", API_BASE \o "/theorem/" \o tag.str, Null)
      IN  (/\ isDemo
           /\ integralType = Str("theorems")
           /\ form.theoremType = tag
           /\ ~loading
           /\ error = Null
           /\ result = StoredResult(d))
          => /\ Truthy(Get(result, "verification"))
             /\ Cardinality({k \in DOMAIN result.verification :
                               k # "difference" /\ IsNum(result.verification[k])}) = 2
             /\ IsNum(Get(result.verification, "difference"))
             /\ TheoremPanel # Null
             /\ ~IsThrow(TheoremPanel)
             /\ TheoremPanel.verification # Null

\* the two values of a verification record: line and surface for Stokes,
\* surface and volume for the divergence theorem
VerifiedValues(v) ==
    IF "line" \in DOMAIN v THEN <<v.line, v.surface>> ELSE <<v.surface, v.volume>>

\* C9: in a stored demo-mode theorem response with a verification record, the
\* difference is the absolute value of the difference of the two values.
C9_DifferenceIsAbsolute ==
    (/\ isDemo
     /\ ~loading
     /\ Truthy(result)
     /\ Truthy(Get(result, "verification")))
    => LET v == result.verification
       IN  v.difference = NumAbs(NumSub(VerifiedValues(v)[1], VerifiedValues(v)[2]))

\* the endpoints of the seven integral operations
IntegralEndpoints == {integralConfig(t, InitForm).endpoint : t \in IntegralKinds}

\* C10 (step part): in demo mode, when the request of one of the seven
\* integral operations settles, the stored result has a numeric `numerical`.
C10_DemoSettle ==
    \A i \in DOMAIN calls :
      \A r \in apiRequest(calls[i].endpoint, calls[i].body) :
        (/\ isDemo
         /\ calls[i].endpoint \in IntegralEndpoints
         /\ settle(i, r))
        => /\ error' = Null
           /\ TypeofNumber(Get(result', "numerical"))

\* C10 (state part): the result panel shows 'N/A' for a missing or empty
\* symbolic field, and the field itself otherwise.
C10_SymbolicShown ==
    (ResultPanel # Null /\ ~IsThrow(ResultPanel))
    => ResultPanel.symbolic =
          (IF Get(result, "symbolic") \in {Undefined, Null, Str("")}
           THEN Str("N/A") ELSE Get(result, "symbolic"))

\* C10: for each of the seven integral operations the result stored after a
\* demo-mode computation has a numeric `numerical` field, and a missing or
\* empty `symbolic` field is displayed as 'N/A'.
C10_NumericalPresent == [](C10_SymbolicShown) /\ [][C10_DemoSettle]_vars

\* C10 witness: a demo-mode surface integral is stored and displayed
C10_DemoResultShown ==
    /\ isDemo
    /\ ~loading
    /\ integralType = Str("surface_scalar")
    /\ result = DEMO_SURFACE_SCALAR.result
    /\ ResultPanel.numerical = Str("6.283185")
    /\ ResultPanel.symbolic = Str("2*pi")

\* C11: an integral result served from the demo data that carries a non-empty
\* symbolic closed form has error estimate 0.
C11_SymbolicIsExact ==
    (/\ isDemo
     /\ ~loading
     /\ Truthy(result)
     /\ IsNum(Get(result, "numerical"))
     /\ Truthy(Get(result, "symbolic")))
    => Get(result, "error") = Num(0, 0)

\* a non-positive radius, as a number or as typed text
NonPositive(v) ==
    \/ IsNum(v) /\ v.num <= 0
    \/ v = Str("0")

\* a request the validation rules reject: a 1-D interval with equal bounds,
\* or a 2-D disk whose radius is not positive
InvalidRegion(c) ==
    \/ /\ c.endpoint = "/integrate/1d"
       /\ c.body.lower_bound = c.body.upper_bound
    \/ /\ c.endpoint = "/integrate/2d"
       /\ Get(c.body.region, "type") = Str("disk")
       /\ NonPositive(Get(c.body.region, "radius"))

\* C12 (step): in demo mode, when a request with an invalid region settles,
\* the call ends with an error shown and no result stored.
C12_InvalidSettle ==
    \A i \in DOMAIN calls :
      \A r \in apiRequest(calls[i].endpoint, calls[i].body) :
        (/\ isDemo
         /\ InvalidRegion(calls[i])
         /\ settle(i, r))
        => /\ error' # Null
           /\ result' = Null
           /\ visualization' = Null

\* C12: a 1-D request with lower = upper, or a 2-D disk request with
\* radius <= 0, served in demo mode, always ends in an error shown to the
\* user and never in a stored result.
C12_InvalidRegionRejected == [][C12_InvalidSettle]_vars

\* the types getComputeConfig has a case for
ConfigCases ==
    IntegralKinds \cup {Str("vector_operations"), Str("vector_fields"), Str("physics"),
                        Str("theorems"), Str("field_lines")}

\* the endpoints of those cases
ConfigEndpoints ==
    {getComputeConfig(t, [InitForm EXCEPT !.theoremType = tt]).endpoint :
        t \in ConfigCases, tt \in TheoremTypes}

\* C13 (step): a compute with a type outside getComputeConfig's cases issues
\* no request and ends with error 'Unknown integral type', result and
\* visualization null, loading false.
C13_UnknownCompute ==
    \A t \in HookTypes \ ConfigCases :
      \A f \in HookForms :
        compute(t, f)
        => /\ calls' = calls
           /\ error' = Str("Unknown integral type")
           /\ result' = Null
           /\ visualization' = Null
           /\ loading' = FALSE

\* C13 (state): every request in flight belongs to one of the cases
C13_OnlyKnownRequests ==
    \A i \in DOMAIN calls : calls[i].endpoint \in ConfigEndpoints

\* C13: a compute with a type outside the cases of getComputeConfig issues no
\* API request and ends with error = 'Unknown integral type', result and
\* visualization null, loading false.
C13_UnknownTypeRejected == [](C13_OnlyKnownRequests) /\ [][C13_UnknownCompute]_vars

\* C13 witness: a compute with an unknown type has just been rejected
C13_RejectedShown ==
    /\ error = Str("Unknown integral type")
    /\ result = Null
    /\ visualization = Null
    /\ ~loading
    /\ calls = <<>>

\* C14: no sequence of example selections, form edits, region-type changes
\* and computations changes an object of the demo responses or of the example
\* catalog, so a demo request is answered as at module load.
C14_SharedReadOnly ==
    /\ \A a \in SharedAddrs : heap[a] = InitHeap[a]
    /\ \A k \in DemoKeys : Resolve(heap, heap[<<k[1], k[2], "data">>]) = DemoData(k)
    /\ \A a \in ExampleAddrs : Resolve(heap, heap[a]) = ExampleAt(a)[a[3]]

\* C14 witness: the sphere example was selected and its radius edited: the
\* form's region is a new object that still shares the example's center
C14_EditedAlias ==
    /\ refs.region3D = Ref(Own("region3D"))
    /\ Get(heap[Own("region3D")], "center") = Ref(<<"3d", 2, "center">>)
    /\ Get(heap[Own("region3D")], "radius") = Str("0")
    /\ refs.result # Null


\* ---------------------------------------------------------------------------
\* C15: demo mode is decided once and never changes. While it is active no
\* apiRequest and no fetchExamples awaits a network fetch, and every answer
\* is the one getDemoResponse gives; while it is inactive every request
\* awaits the fetch and none takes the demo path.
C15_Transport ==
    /\ isDemo => /\ \A i \in 1..Len(calls) : calls[i].awaits = "setTimeout"
                 /\ examplesCall # "fetch"
    /\ ~isDemo => /\ \A i \in 1..Len(calls) : calls[i].awaits = "fetch"
                  /\ examplesCall # "resolved"

C15_DemoAnswers ==
    /\ isDemo' = isDemo
    /\ isDemo /\ Len(calls') < Len(calls) =>
         \E i \in 1..Len(calls) :
           LET d == getDemoResponse("POST", API_BASE \o calls[i].endpoint, calls[i].body)
           IN  d # Null /\ settle(i, d)
    /\ isDemo /\ examplesCall # "done" /\ examplesCall' = "done" =>
         examples' = getDemoResponse("GET", "/api/examples", Undefined)

C15_DemoDecidedOnce == [](C15_Transport) /\ [][C15_DemoAnswers]_vars

\* a demo-mode computation waiting on its simulated delay, catalog loaded
C15_DemoPending ==
    /\ isDemo
    /\ loading
    /\ Len(calls) = 1
    /\ calls[1].awaits = "setTimeout"
    /\ examplesCall = "done"
    /\ examples = DEMO_EXAMPLES


\* ---------------------------------------------------------------------------
\* C16: getDemoResponse returns null exactly when no pre-computed response
\* matches, and its caller then raises 'This endpoint is not available in
\* demo mode'. Every type getComputeConfig accepts has a demo response for
\* its endpoint, so a computation started from the page in demo mode never
\* ends with that error.
NotAvailable == Str("This endpoint is not available in demo mode")

\* the POST paths getDemoResponse has a pre-computed response for
DemoPaths ==
    {"/api/parse", "/api/integrate/1d", "/api/integrate/2d", "/api/integrate/3d",
     "/api/integrate/line/scalar", "/api/integrate/line/vector",
     "/api/integrate/surface/scalar", "/api/integrate/flux",
     "/api/vector/operations", "/api/visualize/vector_field",
     "/api/theorem/greens", "/api/theorem/stokes", "/api/theorem/divergence",
     "/api/physics/field_lines", "/api/physics/equipotential", "/api/export/latex"}

\* endpoints asked of demoApiRequest: those of the page, and some others
ProbedEndpoints ==
    ConfigEndpoints \cup {"/vector/operation", "/integrate", "/api/integrate/1d", ""}

C16_DemoCovered ==
    /\ \A t \in ConfigCases :
         LET cfg == getComputeConfig(t, form)
         IN  getDemoResponse("POST", API_BASE \o cfg.endpoint, cfg.body) # Null
    /\ \A e \in ProbedEndpoints :
         LET body == getComputeConfig(Str("vector_operations"), form).body
             d == getDemoResponse("POST", API_BASE \o e, body)
         IN  /\ (d = Null) <=> (API_BASE \o e \notin DemoPaths)
             /\ (d = Null) => demoApiRequest(e, body) = Throw(NotAvailable)
             /\ (d # Null) => demoApiRequest(e, body) = d
    /\ isDemo => error # NotAvailable
    /\ isDemo => \A i \in 1..Len(calls) :
         apiRequestSettled(calls[i]) \cap {Throw(NotAvailable)} = {}

\* a demo-mode divergence computation has settled with its demo result
C16_DemoComputed ==
    /\ isDemo
    /\ integralType = Str("vector_operations")
    /\ form.vectorOp = Str("divergence")
    /\ ~loading
    /\ error = Null
    /\ result = StoredResult(DEMO_VECTOR_OPS.divergence)


\* ---------------------------------------------------------------------------
\* C17: the dispatcher attempts the symbolic closed form before any numeric
\* method; after a symbolic failure a 1-D or 2-D request goes to adaptive
\* quadrature, a 3-D Box request to quadrature, and a 3-D Sphere or Cylinder
\* request, or a 3-D request with an explicit sample budget, to Monte Carlo;
\* Monte Carlo is never chosen for a 1-D or 2-D request; and every request
\* ends in Completed or Failed.
C17_Policy ==
    /\ job.phase \in {"NumericFallback", "Quadrature", "MonteCarlo"} =>
         job.symbolic = "failed"
    /\ job.phase = "Completed" => job.symbolic \in {"succeeded", "failed"}
    /\ job.method \in {"quadrature", "monte_carlo"} => job.symbolic = "failed"
    /\ job.phase = "Quadrature" \/ job.method = "quadrature" =>
         \/ job.dim \in {1, 2}
         \/ job.region = "Box" /\ job.budget = "none"
    /\ job.phase = "MonteCarlo" \/ job.method = "monte_carlo" =>
         /\ job.dim = 3
         /\ job.region \in {"Sphere", "Cylinder"} \/ job.budget # "none"

C17_Chosen ==
    job.phase = "NumericFallback" /\ job'.phase # "NumericFallback" =>
        job'.phase = IF job.dim = 3 /\ (job.region # "Box" \/ job.budget # "none")
                     THEN "MonteCarlo" ELSE "Quadrature"

C17_Dispatch ==
    /\ [](C17_Policy)
    /\ [][C17_Chosen]_vars
    /\ (job.phase \notin Terminal) ~> (job.phase \in {"Completed", "Failed"})

\* a 2-D request with an explicit sample budget completed by quadrature
\* after its symbolic attempt failed
C17_QuadratureDespiteBudget ==
    /\ job.phase = "Completed"
    /\ job.dim = 2
    /\ job.budget = "within"
    /\ job.symbolic = "failed"
    /\ job.method = "quadrature"


\* ---------------------------------------------------------------------------
\* C18: every compute call sets loading back to false when its request
\* resolves or rejects, on the success path and on every error path; in demo
\* mode the request always settles after its delay, so loading is true for
\* a while and then always becomes false.
C18_SettleClears ==
    /\ Len(calls') < Len(calls) => ~loading'
    /\ error' # error /\ error' # Null => ~loading'
    /\ result' # result /\ result' # Null => ~loading'

C18_LoadingEnds ==
    /\ [][C18_SettleClears]_vars
    /\ (isDemo /\ loading) ~> ~loading

\* a demo-mode call has settled after its delay: its result is stored and
\* loading is false again
C18_DemoSettled ==
    /\ isDemo
    /\ ~loading
    /\ calls = <<>>
    /\ error = Null
    /\ result # Null
    /\ visualization # Null


\* ---------------------------------------------------------------------------
\* C19: with compute calls that do not overlap, result, visualization and
\* error are all null while loading is true, and when the call settles
\* exactly one outcome holds: success (result and visualization non-null,
\* error null) or failure (error non-null, result and visualization null).
Succeeded == result # Null /\ visualization # Null /\ error = Null
Failed == error # Null /\ result = Null /\ visualization = Null
Cleared == result = Null /\ visualization = Null /\ error = Null

C19_WhileLoading ==
    /\ loading => Cleared
    /\ ~loading => Cleared \/ Succeeded \/ Failed

C19_Settled ==
    Len(calls') < Len(calls) =>
        /\ loading /\ ~loading'
        /\ \/ result' # Null /\ visualization' # Null /\ error' = Null
           \/ error' # Null /\ result' = Null /\ visualization' = Null

C19_ExactlyOneOutcome == [](C19_WhileLoading) /\ [][C19_Settled]_vars

\* a computation has settled with a failure: the error alone is set
C19_FailureSettled ==
    /\ ~loading
    /\ calls = <<>>
    /\ Failed
    /\ error = Str("Failed to fetch")


\* ---------------------------------------------------------------------------
\* C20: through the page at most one computation is in flight: the Compute
\* button is disabled from the start of a computation until it settles, so
\* handleCompute never starts a second call while one is pending.
C20_OneInFlight ==
    /\ Len(calls) <= 1
    /\ loading <=> Len(calls) = 1

C20_NoSecondStart ==
    Len(calls') > Len(calls) =>
        /\ calls = <<>>
        /\ ~loading
        /\ loading'

C20_SingleFlight == [](C20_OneInFlight) /\ [][C20_NoSecondStart]_vars

\* a triple integral is in flight and the button is disabled
C20_ButtonDisabled ==
    /\ loading
    /\ Len(calls) = 1
    /\ calls[1].endpoint = "/integrate/3d"
    /\ integralType = Str("3d")


\* ---------------------------------------------------------------------------
\* C21: when compute is called again while an earlier call is pending,
\* loading stays true until both calls have settled, and once both have
\* settled result, visualization and error are those of one call, the one
\* started later (so never the result of one with the error of the other).
C21_LoadingWhilePending ==
    /\ calls # <<>> => loading
    /\ calls = <<>> => ~(result # Null /\ error # Null)


\* ---------------------------------------------------------------------------
\* C22: the 1-D visualization component is only rendered with the payload of
\* a 1d computation and the 3-D component only with the payload of a
\* computation of another type, whatever types were selected since (checked
\* in demo mode, where the 1d payload is the one of DEMO_1D).
C22_PayloadMatchesComponent ==
    isDemo /\ VisualizationPanel # Null =>
        (VisualizationPanel.component = "Visualization1D"
            <=> VisualizationPanel.data = StoredVisualization(DEMO_1D))


\* ---------------------------------------------------------------------------
\* C23: under every selection, each form value that getComputeConfig copies
\* into the request body is one the sidebar shows for editing, so no request
\* carries an input that is hidden at the time of Compute.

\* a value of the same shape that differs in every leaf
RECURSIVE Perturb(_)
Perturb(v) ==
    IF DOMAIN v = {"str"} THEN Str(v.str \o "#")
    ELSE IF DOMAIN v = {"num", "exp"} THEN Num(v.num + 1, v.exp)
    ELSE IF DOMAIN v = {"arr"} THEN Arr([i \in DOMAIN v.arr |-> Perturb(v.arr[i])])
    ELSE [k \in DOMAIN v |-> Perturb(v[k])]

\* the state cells whose value reaches the request body of the selection
CopiedCells ==
    {c \in DOMAIN form :
        getComputeConfig(integralType, [form EXCEPT ![c] = Perturb(form[c])]).body
            # getComputeConfig(integralType, form).body}

C23_SentInputsShown == CopiedCells \subseteq ShownCells


\* ---------------------------------------------------------------------------
\* C24: after an example of the theorem examples list is selected, the next
\* Compute goes to the endpoint of that example's theorem type and carries
\* that example's vector field, whatever was set before (checked in demo
\* mode, on the request the form gives right after the selection).
C24_Selected(ex) ==
    /\ isDemo
    /\ integralType = Str("theorems")
    /\ nOps' = nOps + 1
    /\ integralType' = integralType
    /\ form' = ExampleForm(ex, form)

C24_NextRequest(ex) ==
    LET cfg == getComputeConfig(integralType', form')
    IN  /\ cfg.endpoint = "/theorem/" \o ex.type.str
        /\ Get(cfg.body, "vector_field") = ex.vector_field

C24_TheoremExampleRequested ==
    [][\A ex \in ShownExamples : C24_Selected(ex) => C24_NextRequest(ex)]_vars


\* ---------------------------------------------------------------------------
\* C25: selecting an example changes only the form fields the example
\* supplies a value for; it changes the selected type only when the current
\* type is 'physics' and the example's type is in the type map; and it
\* starts no computation and leaves result, visualization, error and loading
\* alone.

\* the keys of an example that feed a form field
ExampleKeysOf(c) ==
    CASE c = "integrand" -> {"integrand"}
      [] c = "bounds1D" -> {"lower_bound", "upper_bound"}
      [] c \in {"region2D", "region3D"} -> {"region"}
      [] c = "vectorField" -> {"vector_field"}
      [] c = "curve" -> {"curve"}
      [] c = "tRange" -> {"t_start", "t_end"}
      [] c = "surface" -> {"surface"}
      [] c = "uRange" -> {"u_range"}
      [] c = "vRange" -> {"v_range"}
      [] c = "scalarField" -> {"scalar_field"}
      [] c = "vectorOp" -> {"operation"}
      [] c = "P_field" -> {"P"}
      [] c = "Q_field" -> {"Q"}
      [] OTHER -> {}

\* the step is the selection of example ex
C25_Selected(ex) ==
    /\ nOps' = nOps + 1
    /\ physicsCategory' = physicsCategory
    /\ form' = ExampleForm(ex, form)
    /\ integralType' = ExampleType(ex, integralType)

C25_Frame(ex) ==
    /\ \A c \in DOMAIN form :
         form'[c] # form[c] => ExampleKeysOf(c) \cap DOMAIN ex # {}
    /\ integralType' # integralType =>
         /\ integralType = Str("physics")
         /\ "type" \in DOMAIN ex
         /\ ex.type.str \in DOMAIN typeMap
         /\ integralType' = typeMap[ex.type.str]
    /\ UNCHANGED <<result, visualization, error, loading, calls>>

C25_SelectionFrame ==
    [][\A ex \in ShownExamples : C25_Selected(ex) => C25_Frame(ex)]_vars

\* a physics example was selected after an edit: the type moved to the
\* vector-field page, the field is the example's, the edit is kept
C25_PhysicsExampleSelected ==
    /\ integralType = Str("vector_fields")
    /\ examples # Null
    /\ form.vectorField \in {ex.vector_field : ex \in Seq2Set(examples["physics"])}
    /\ form # ExampleFormReset([vector_field |-> form.vectorField], form)


\* ---------------------------------------------------------------------------
\* C26: an exception thrown while rendering or drawing a visualization is
\* confined to the inner error boundary: the outer boundary never enters its
\* error state, the sidebar and the result panel stay rendered, and the inner
\* boundary shows the fallback with the error's message until 'Try Again'
\* resets it to {hasError: false, error: null}.
InnerFailed == innerBoundary # Null /\ innerBoundary.hasError

C26_Caught ==
    /\ PageRendered
    /\ VisualizationError(VisualizationPanel) # Null => InnerFailed
    /\ InnerFailed =>
         /\ VisualizationPanel # Null
         /\ innerBoundary.error \in
              {VisualizationError([component |-> c, data |-> visualization]) :
                  c \in {"Visualization1D", "Visualization3D"}} \ {Null}
         /\ Fallback(innerBoundary) = innerBoundary.error.message
         /\ ResultPanel = IF Truthy(result) THEN ResultDisplay(result) ELSE Null

\* the step is a click on Try Again: the state is reset and the children
\* render again, which leaves no error or catches the one they throw now
C26_Reset ==
    /\ UNCHANGED <<integralType, form, hookVars, calls>>
    /\ innerBoundary' \in
         {NoError, getDerivedStateFromError(VisualizationError(VisualizationPanel))}
    /\ innerBoundary'.hasError => innerBoundary'.error # Null

\* the step drops the visualization block with its boundary
C26_Unmounted ==
    /\ VisualizationPanel' = Null
    /\ innerBoundary' = Null

\* C26 as stated: only Try Again ends the fallback (checked in demo mode)
C26_FallbackUntilTryAgain ==
    /\ [](C26_Caught)
    /\ [][isDemo /\ InnerFailed /\ innerBoundary' # innerBoundary => C26_Reset]_vars

\* C26 amended: Try Again ends the fallback, and so does a new computation,
\* which removes the visualization block together with its boundary
C26_FallbackUntilResetOrUnmount ==
    /\ [](C26_Caught)
    /\ [][InnerFailed /\ innerBoundary' # innerBoundary
            => C26_Reset \/ C26_Unmounted]_vars

\* the demo response of Stokes' theorem is on display and drawing it has
\* thrown: the inner boundary shows the fallback, the page is still rendered
C26_StokesFallbackShown ==
    /\ isDemo
    /\ integralType = Str("theorems")
    /\ result = StoredResult(DEMO_STOKES)
    /\ InnerFailed
    /\ Fallback(innerBoundary) = Str("Cannot read properties of undefined (reading 'length')")
    /\ PageRendered

====
